---------------------------- MODULE Spec2Model ----------------------------
(***************************************************************************)
(* Verification model of node-appletv-remote: the HAP and Companion        *)
(* encryption sessions, the Companion connection and the AirPlay           *)
(* connection state machine.                                               *)
(*                                                                         *)
(* Byte buffers are modelled symbolically.  A plaintext buffer is a        *)
(* sequence of pieces [id, off, len]: len bytes of source message id       *)
(* starting at byte off.  Slicing and concatenation work on pieces, so a   *)
(* 4 KB buffer costs as much as a 1-byte one and FRAME_LENGTH keeps its    *)
(* real value.  ChaCha20-Poly1305 is the ideal AEAD: a tag verifies only   *)
(* under the key, nonce and AAD it was made with, for that ciphertext.     *)
(***************************************************************************)
EXTENDS Integers, Sequences, FiniteSets, TLC

VARIABLES
    \* Two-peer session harness (the session tests' sender and receiver).
    sessionClass,    \* "HAP" or "Companion": the class the two peers instantiate
    sender,          \* new Session(k1, k2)
    receiver,        \* new Session(k2, k1)
    forger,          \* new CompanionSession(k3, k2): frames under another key
    sent,            \* plaintexts handed to sender.encrypt, in order
    hapWire,         \* outputs of HAPSession.encrypt, in order
    companionWire,   \* frames of CompanionSession.encrypt, each with what made it
    senderFrames,    \* every frame the sender encrypted, in order
    received,        \* results of HAPSession.decrypt, in order
    lastDecrypt      \* the last CompanionSession.decrypt call and its outcome

sessionVars == << sessionClass, sender, receiver, forger, sent, hapWire,
                  companionWire, senderFrames, received, lastDecrypt >>

VARIABLES
    \* CompanionConnection (companion/connection.ts).
    companionConnect,      \* where connect() stands: idle, opening, awaitM2,
                           \* awaitM4, deriving, resolved, rejected
    companionSocket,       \* this.socket: undefined, connecting, connected, ended
    companionSession,      \* this.session: << >> (undefined) or << session >>
    companionBuffer,       \* this.buffer: bytes left over by the frame parsers
    transferId,            \* this.transferId
    pendingRequests,       \* keys of this.pendingRequests
    requestTimers,         \* transfer ids whose sendRequest timer is armed
    pendingFrameResolvers, \* this.pendingFrameResolvers
    frameTimers,           \* waitForFrame entries whose timer is armed
    requests,              \* the promise of every sendRequest made, by transfer id
    written,               \* number of frames written to the socket
    emitted,               \* number of 'event' and 'error' emissions
    lastHandled,           \* the last inbound value handleMessage saw, and its effect
    lastCall,              \* the last sendRequest / sendMessage / close call
    closedPending,         \* transfer ids that were pending at a close()
    peerSession,           \* the peer's CompanionSession, once it sent M4
    peerSent,              \* number of encrypted-phase frames the peer has sent
    decryptFailures        \* number of inbound frames that failed to authenticate

companionVars == << companionConnect, companionSocket, companionSession,
                    companionBuffer, transferId, pendingRequests, requestTimers,
                    pendingFrameResolvers, frameTimers, requests, written, emitted,
                    lastHandled, lastCall, closedPending, peerSession, peerSent,
                    decryptFailures >>

VARIABLES
    \* AirPlayConnection (connection.ts).
    airConnect,           \* where connect() stands: idle, tcp, m2, m4, setupEvent,
                          \* eventSocket, record, setupData, dataSocket,
                          \* deviceInfoWrite, deviceInfoWait, initRest, settle,
                          \* resolved, rejected
    socket,               \* this.socket: undefined or connected
    eventSocket,          \* this.eventSocket
    dataSocket,           \* this.dataSocket
    session,              \* this.session: << >> (undefined) or << HAPSession >>
    eventSession,         \* this.eventSession
    dataSession,          \* this.dataSession
    dataOut,              \* what sendMRPMessage wrote on the data socket, in order: [type, written]
    cseq,                 \* this.cseq
    feedbackInterval,     \* TRUE while the FEEDBACK interval is armed
    feedbacks,            \* number of times the FEEDBACK interval has fired
    rtspListeners,        \* callers whose once('rtsp-response') listener is registered
    rtspRequests,         \* requests written that the receiver has not answered yet
    pendingMRPResolvers,  \* this.pendingMRPResolvers: entries [type, id]
    waits,                \* the promise of every waitForMRPMessage call, by id
    mrpTimers,            \* ids of the waitForMRPMessage timers that are armed
    now,                  \* the clock, in ms
    exchanges,            \* how each exchange of connect() went: none, ok, failed
    dataPeer,             \* the receiver's HAPSession of the data channel
    dataFrames,           \* number of frames the receiver sent on the data channel
    dataDecryptFailures,  \* number of data-channel frames that failed to authenticate
    mrpDelivered,         \* 'mrp-message' emissions, in all and after a failed frame
    lastData,             \* the last frame onDataChannelData took in (its header
                          \* once decrypted) and what it wrote back
    arrived,              \* types of the messages MRPMessage.decode returned, in order
    observers,            \* what the listeners of 'mrp-message' and of AppleTV's
                          \* 'message' were called with, in order
    lastMRP               \* the last message handleMRPResponse saw, and the state before

airSockets == << socket, eventSocket, dataSocket >>
airSessions == << session, eventSession, dataSession, dataOut >>
airRtsp == << cseq, rtspListeners, rtspRequests >>
airMrp == << pendingMRPResolvers, waits, mrpTimers, lastMRP >>
airData == << dataPeer, dataFrames, dataDecryptFailures, mrpDelivered, lastData, arrived,
             observers >>

airVars == << airConnect, airSockets, airSessions, airRtsp, feedbackInterval, feedbacks,
              airMrp, now, exchanges, airData >>

VARIABLES
    \* A call of one of the codecs (data-stream.ts, tlv.ts, opack.ts).
    codecFn,              \* the codec called: none, datastream, tlv, opack
    codecStage,           \* idle, input, encoded, decoded
    codecInput,           \* the value given to the encoder
    codecEncoded,         \* what the encoder returned
    codecDecoded          \* what the decoder returned for it

codecVars == << codecFn, codecStage, codecInput, codecEncoded, codecDecoded >>

VARIABLES
    \* Pairing (auth/pair-setup.ts, companion/pair-setup.ts, PairVerify).
    pairing,              \* a run of PairSetup, CompanionPairSetup or PairVerify:
                          \* [flow, step, m2, m4, m6, result, error]
    verifyLog             \* observation: what the pair-verify of each connect()
                          \* received and did: [m2, m3 sent, Error value of m4,
                          \* keys derived]

pairVars == << pairing, verifyLog >>

VARIABLES
    \* The inbound bytes of one AirPlay socket.
    inbound               \* [channel, stream, split: the 'data' events to come,
                          \* arrived: bytes handed over, rcv: the receive state]

streamVars == << inbound >>

VARIABLES
    \* What is seen of the FEEDBACK heartbeat of one AirPlayConnection.
    heartbeat             \* observation: [closed: close() was called, stopped:
                          \* close() was called with the interval armed, clock:
                          \* ms since the interval was armed, sent: the requests
                          \* the interval sent, failed: how many of them threw]

hbVars == << heartbeat >>

VARIABLES
    \* A key press of AppleTV.sendKey.
    keyPress              \* [key, step: where sendKey stands, clock: ms since the
                          \* call, due: when the delay ends, log: the messages
                          \* handed to the data socket, with the time]

keyVars == << keyPress >>

VARIABLES
    \* The parse loop of AirPlayConnection.onDataChannelData.
    parseLoop             \* [pc: idle, or loop while the DataStream loop runs,
                          \* dec: this.dataDecBuffer as bytes, chunks: 'data'
                          \* events so far, steps and replies: iterations run
                          \* and replies written by the current call]

loopVars == << parseLoop >>

vars == << sessionVars, companionVars, airVars, codecVars, pairVars, streamVars, hbVars,
           keyVars, loopVars >>

(***************************************************************************)
(* Bounds of the model.                                                    *)
(***************************************************************************)
MaxEncrypts == 3
MaxDecrypts == 3
MaxRequests == 2
MaxMessages == 1
MaxInbound == 2
MaxFeedbacks == 1
MaxWaits == 2
MaxTicks == 2
MaxDataFrames == 2

(***************************************************************************)
(* Program constants.                                                      *)
(***************************************************************************)
FRAME_LENGTH == 1024
PV_Start == 5
PV_Next == 6
E_OPACK == 8
SetState == 4
DeviceInfo == 15
DefaultTimeoutMs == 5000
PlaybackQueueTimeoutMs == 10000
NoFilter == -1
\* Bytes the plist library writes around one data value: its header, the two
\* dictionaries and their keys, the offset table and the trailer.
BplistOverhead == 64
ClientUpdatesConfig == 16
GetKeyboardSession == 24
PlaybackQueueRequest == 32
CryptoPairing == 34
SetConnectionState == 38

Min(a, b) == IF a < b THEN a ELSE b

(***************************************************************************)
(* Buffers.                                                                *)
(***************************************************************************)
\* Buffer.from(<message id>) of n bytes.
BufferFrom(id, n) == IF n = 0 THEN << >> ELSE << [id |-> id, off |-> 0, len |-> n] >>

RECURSIVE BufLen(_)
BufLen(b) == IF b = << >> THEN 0 ELSE Head(b).len + BufLen(Tail(b))

\* Buffer.concat([a, b]): adjacent pieces of one message join.
Concat(a, b) ==
    IF a = << >> THEN b
    ELSE IF b = << >> THEN a
    ELSE LET l == a[Len(a)]
             f == Head(b)
         IN  IF l.id = f.id /\ l.off + l.len = f.off
             THEN SubSeq(a, 1, Len(a) - 1)
                  \o << [id |-> l.id, off |-> l.off, len |-> l.len + f.len] >>
                  \o Tail(b)
             ELSE a \o b

\* buf.subarray(start, end), 0 <= start <= end.
RECURSIVE Subarray(_, _, _)
Subarray(b, start, end) ==
    IF b = << >> \/ end <= start THEN << >>
    ELSE LET h == Head(b)
         IN  IF start >= h.len
             THEN Subarray(Tail(b), start - h.len, end - h.len)
             ELSE LET e == Min(end, h.len)
                  IN  Concat(<< [id |-> h.id, off |-> h.off + start, len |-> e - start] >>,
                             Subarray(Tail(b), 0, end - h.len))

(***************************************************************************)
(* util/crypto.ts                                                          *)
(***************************************************************************)
\* 12-byte nonce: 4 zero bytes, then the counter as 8 little-endian bytes.
generateNonce(counter) == [zero |-> 0, counter |-> counter]

encryptChaCha20(key, nonce, plaintext, aad) ==
    LET ciphertext == [key |-> key, nonce |-> nonce, plaintext |-> plaintext]
    IN  [ciphertext |-> ciphertext,
         tag |-> [key |-> key, nonce |-> nonce, aad |-> aad, over |-> ciphertext]]

\* decipher.final() throws unless the tag verifies.
decryptChaCha20(key, nonce, ciphertext, tag, aad) ==
    IF tag = [key |-> key, nonce |-> nonce, aad |-> aad, over |-> ciphertext]
    THEN [ok |-> TRUE, plaintext |-> ciphertext.plaintext]
    ELSE [ok |-> FALSE, plaintext |-> << >>]

(***************************************************************************)
(* util/hap-session.ts                                                     *)
(***************************************************************************)
NewHAPSession(outKey, inKey) ==
    [outKey |-> outKey, inKey |-> inKey, outCounter |-> 0, inCounter |-> 0]

\* An encrypt loop that seals a frame for an empty input as well.
RECURSIVE HAPEncryptLoop_DoWhile(_, _, _, _)
HAPEncryptLoop_DoWhile(s, data, offset, frames) ==
    IF offset < BufLen(data) \/ (offset = 0 /\ frames = << >>)
    THEN LET chunkSize == Min(FRAME_LENGTH, BufLen(data) - offset)
             chunk == Subarray(data, offset, offset + chunkSize)
             lengthBytes == chunkSize % 65536
             nonce == generateNonce(s.outCounter)
             sealed == encryptChaCha20(s.outKey, nonce, chunk, lengthBytes)
         IN  HAPEncryptLoop_DoWhile([s EXCEPT !.outCounter = @ + 1], data,
                 IF chunkSize = 0 THEN 1 ELSE offset + chunkSize,
                 Append(frames, [lengthBytes |-> lengthBytes,
                                 ciphertext |-> sealed.ciphertext,
                                 tag |-> sealed.tag]))
    ELSE [session |-> s, frames |-> frames]

\* One pass of the while loop of HAPSession.encrypt: frames produced so far and
\* the counter, from byte offset on.
RECURSIVE HAPEncryptLoop(_, _, _, _)
HAPEncryptLoop(s, data, offset, frames) ==
    IF offset < BufLen(data)
    THEN LET chunkSize == Min(FRAME_LENGTH, BufLen(data) - offset)
             chunk == Subarray(data, offset, offset + chunkSize)
             lengthBytes == chunkSize % 65536
             nonce == generateNonce(s.outCounter)
             sealed == encryptChaCha20(s.outKey, nonce, chunk, lengthBytes)
         IN  HAPEncryptLoop([s EXCEPT !.outCounter = @ + 1], data, offset + chunkSize,
                 Append(frames, [lengthBytes |-> lengthBytes,
                                 ciphertext |-> sealed.ciphertext,
                                 tag |-> sealed.tag]))
    ELSE [session |-> s, frames |-> frames]

HAPEncrypt(s, data) == HAPEncryptLoop(s, data, 0, << >>)

\* The while loop of HAPSession.decrypt over the frames of data; a tag that does
\* not verify throws out of the loop, after inCounter was advanced.
RECURSIVE HAPDecryptLoop(_, _, _)
HAPDecryptLoop(s, data, parts) ==
    IF data # << >>
    THEN LET f == Head(data)
             nonce == generateNonce(s.inCounter)
             s1 == [s EXCEPT !.inCounter = @ + 1]
             r == decryptChaCha20(s.inKey, nonce, f.ciphertext, f.tag, f.lengthBytes)
         IN  IF r.ok
             THEN HAPDecryptLoop(s1, Tail(data), Concat(parts, r.plaintext))
             ELSE [session |-> s1, ok |-> FALSE, plaintext |-> << >>]
    ELSE [session |-> s, ok |-> TRUE, plaintext |-> parts]

\* Mutant of HAPDecrypt: inCounter is never advanced.
RECURSIVE HAPDecryptLoop_CounterStuck(_, _, _)
HAPDecryptLoop_CounterStuck(s, data, parts) ==
    IF data # << >>
    THEN LET f == Head(data)
             r == decryptChaCha20(s.inKey, generateNonce(s.inCounter), f.ciphertext,
                                  f.tag, f.lengthBytes)
         IN  IF r.ok
             THEN HAPDecryptLoop_CounterStuck(s, Tail(data), Concat(parts, r.plaintext))
             ELSE [session |-> s, ok |-> FALSE, plaintext |-> << >>]
    ELSE [session |-> s, ok |-> TRUE, plaintext |-> parts]

HAPDecrypt_CounterStuck(s, data) == HAPDecryptLoop_CounterStuck(s, data, << >>)

HAPDecrypt(s, data) == HAPDecryptLoop(s, data, << >>)

(***************************************************************************)
(* companion/companion-session.ts                                          *)
(***************************************************************************)
NewCompanionSession(outKey, inKey) ==
    [outKey |-> outKey, inKey |-> inKey, outCounter |-> 0, inCounter |-> 0]

\* header[0] = frameType, header[1..3] = plaintext length, big-endian, 3 bytes.
CompanionHeader(frameType, length) ==
    [type |-> frameType % 256, length |-> length % (2 ^ 24)]

\* Mutant of CompanionEncrypt: outCounter is not advanced.
CompanionEncrypt_NoIncrement(s, frameType, plaintext) ==
    LET header == CompanionHeader(frameType, BufLen(plaintext))
        sealed == encryptChaCha20(s.outKey, generateNonce(s.outCounter), plaintext, header)
    IN  [session |-> s,
         frame |-> [header |-> header, ciphertext |-> sealed.ciphertext,
                    tag |-> sealed.tag]]

CompanionEncrypt(s, frameType, plaintext) ==
    LET nonce == generateNonce(s.outCounter)
        header == CompanionHeader(frameType, BufLen(plaintext))
        sealed == encryptChaCha20(s.outKey, nonce, plaintext, header)
    IN  [session |-> [s EXCEPT !.outCounter = @ + 1],
         frame |-> [header |-> header, ciphertext |-> sealed.ciphertext,
                    tag |-> sealed.tag]]

\* Mutant of CompanionDecrypt: the AAD is rebuilt from the payload instead of
\* being the header that arrived.
CompanionDecrypt_HeaderRebuilt(s, header, encryptedPayload) ==
    LET rebuilt == CompanionHeader(E_OPACK, BufLen(encryptedPayload.ciphertext.plaintext))
        r == decryptChaCha20(s.inKey, generateNonce(s.inCounter),
                             encryptedPayload.ciphertext, encryptedPayload.tag, rebuilt)
    IN  [session |-> [s EXCEPT !.inCounter = @ + 1], ok |-> r.ok,
         plaintext |-> r.plaintext]

CompanionDecrypt(s, header, encryptedPayload) ==
    LET nonce == generateNonce(s.inCounter)
        r == decryptChaCha20(s.inKey, nonce, encryptedPayload.ciphertext,
                             encryptedPayload.tag, header)
    IN  [session |-> [s EXCEPT !.inCounter = @ + 1], ok |-> r.ok,
         plaintext |-> r.plaintext]

(***************************************************************************)
(* Two peers with swapped keys (util/__tests__/hap-session.test.ts,        *)
(* companion/__tests__/companion-session.test.ts).                         *)
(***************************************************************************)
PlainLens == {0, 5, 1023, 1024, 1025, 3000, 4096}
CompanionLens == {6, 15}

InitSession ==
    /\ sessionClass = "none"
    /\ sender = NewHAPSession("k1", "k2")
    /\ receiver = NewHAPSession("k2", "k1")
    /\ forger = NewCompanionSession("k3", "k2")
    /\ sent = << >>
    /\ hapWire = << >>
    /\ companionWire = << >>
    /\ senderFrames = << >>
    /\ received = << >>
    /\ lastDecrypt = [calls |-> 0]

\* The two peers are constructed, with swapped keys.
CreateSessionPair(class) ==
    /\ sessionClass = "none"
    /\ sessionClass' = class
    /\ sender' = IF class = "HAP" THEN NewHAPSession("k1", "k2")
                 ELSE NewCompanionSession("k1", "k2")
    /\ receiver' = IF class = "HAP" THEN NewHAPSession("k2", "k1")
                   ELSE NewCompanionSession("k2", "k1")
    /\ UNCHANGED << forger, sent, hapWire, companionWire, senderFrames, received,
                    lastDecrypt >>
    /\ UNCHANGED << companionVars, airVars, codecVars, pairVars, streamVars, hbVars, keyVars, loopVars >>

\* sender.encrypt(Buffer) of the next message, n bytes long.
HAPSend(n) ==
    /\ sessionClass = "HAP"
    /\ Len(sent) < MaxEncrypts
    /\ LET data == BufferFrom(Len(sent) + 1, n)
           r == HAPEncrypt(sender, data)
       IN  /\ sender' = r.session
           /\ sent' = Append(sent, data)
           /\ hapWire' = Append(hapWire, r.frames)
           /\ senderFrames' = senderFrames \o r.frames
    /\ UNCHANGED << sessionClass, receiver, forger, companionWire, received, lastDecrypt >>
    /\ UNCHANGED << companionVars, airVars, codecVars, pairVars, streamVars, hbVars, keyVars, loopVars >>

\* receiver.decrypt(enc) of the oldest output not yet decrypted.
HAPReceive ==
    /\ sessionClass = "HAP"
    /\ Len(received) < Len(hapWire)
    /\ LET r == HAPDecrypt(receiver, hapWire[Len(received) + 1])
       IN  /\ receiver' = r.session
           /\ received' = Append(received, [ok |-> r.ok, plaintext |-> r.plaintext])
    /\ UNCHANGED << sessionClass, sender, forger, sent, hapWire, companionWire,
                    senderFrames, lastDecrypt >>
    /\ UNCHANGED << companionVars, airVars, codecVars, pairVars, streamVars, hbVars, keyVars, loopVars >>

\* sender.encrypt(FrameType.E_OPACK, Buffer) of the next message.
CompanionSend(n) ==
    /\ sessionClass = "Companion"
    /\ Len(companionWire) < MaxEncrypts
    /\ LET data == BufferFrom(Len(companionWire) + 1, n)
           r == CompanionEncrypt(sender, E_OPACK, data)
       IN  /\ sender' = r.session
           /\ sent' = Append(sent, data)
           /\ senderFrames' = Append(senderFrames, r.frame)
           /\ companionWire' = Append(companionWire,
                  [frame |-> r.frame, key |-> sender.outKey,
                   counter |-> sender.outCounter, plaintext |-> data])
    /\ UNCHANGED << sessionClass, receiver, forger, hapWire, received, lastDecrypt >>
    /\ UNCHANGED << companionVars, airVars, codecVars, pairVars, streamVars, hbVars, keyVars, loopVars >>

\* A session holding another key encrypts a frame for the receiver.
ForgerSend(n) ==
    /\ sessionClass = "Companion"
    /\ Len(companionWire) < MaxEncrypts
    /\ LET data == BufferFrom(Len(companionWire) + 1, n)
           r == CompanionEncrypt(forger, E_OPACK, data)
       IN  /\ forger' = r.session
           /\ companionWire' = Append(companionWire,
                  [frame |-> r.frame, key |-> forger.outKey,
                   counter |-> forger.outCounter, plaintext |-> data])
    /\ UNCHANGED << sessionClass, sender, receiver, sent, hapWire, senderFrames,
                    received, lastDecrypt >>
    /\ UNCHANGED << companionVars, airVars, codecVars, pairVars, streamVars, hbVars, keyVars, loopVars >>

\* The headers a frame can arrive with: its own, or one with the type byte or
\* a length byte changed.
HeadersFor(frame) ==
    { frame.header,
      [frame.header EXCEPT !.type = (@ + 1) % 256],
      [frame.header EXCEPT !.length = (@ + 1) % (2 ^ 24)] }

\* receiver.decrypt(header, payload) of any frame ever sent, in any order.
CompanionReceive(i, header) ==
    /\ sessionClass = "Companion"
    /\ lastDecrypt.calls < MaxDecrypts
    /\ i \in 1..Len(companionWire)
    /\ header \in HeadersFor(companionWire[i].frame)
    /\ LET w == companionWire[i]
           r == CompanionDecrypt(receiver, header,
                    [ciphertext |-> w.frame.ciphertext, tag |-> w.frame.tag])
       IN  /\ receiver' = r.session
           /\ lastDecrypt' =
                  [calls |-> lastDecrypt.calls + 1,
                   sentAs |-> w, header |-> header, inCounter |-> receiver.inCounter,
                   inKey |-> receiver.inKey, ok |-> r.ok, plaintext |-> r.plaintext]
    /\ UNCHANGED << sessionClass, sender, forger, sent, hapWire, companionWire,
                    senderFrames, received >>
    /\ UNCHANGED << companionVars, airVars, codecVars, pairVars, streamVars, hbVars, keyVars, loopVars >>

NextSession ==
    \/ \E class \in {"HAP", "Companion"} : CreateSessionPair(class)
    \/ \E n \in PlainLens : HAPSend(n)
    \/ HAPReceive
    \/ \E n \in CompanionLens : CompanionSend(n)
    \/ \E n \in CompanionLens : ForgerSend(n)
    \/ \E i \in 1..Len(companionWire) :
           \E header \in HeadersFor(companionWire[i].frame) : CompanionReceive(i, header)

(***************************************************************************)
(* companion/opack.ts, as far as the connection needs it: a value encodes  *)
(* to a buffer that holds it, and a truncated buffer does not decode.      *)
(***************************************************************************)
NoX == [type |-> "undefined", value |-> 0]
NumberX(n) == [type |-> "number", value |-> n]
StringX == [type |-> "string", value |-> 0]

OpackMap(x) == [kind |-> "map", x |-> x]
OpackArray == [kind |-> "array", x |-> NoX]

OpackSize(v) == IF v.kind = "map" THEN (IF v.x.type = "undefined" THEN 4 ELSE 8) ELSE 2

opackEncode(v) == << [id |-> v, off |-> 0, len |-> OpackSize(v)] >>

\* opackDecode throws on a buffer that ends early.
opackDecode(buf) ==
    IF Len(buf) = 1 /\ buf[1].off = 0 /\ buf[1].len = OpackSize(buf[1].id)
    THEN [ok |-> TRUE, value |-> buf[1].id]
    ELSE [ok |-> FALSE, value |-> OpackArray]

\* A payload cut short by one byte.
Truncated(v) == << [id |-> v, off |-> 0, len |-> OpackSize(v) - 1] >>

(***************************************************************************)
(* companion/connection.ts                                                 *)
(***************************************************************************)
InitCompanion ==
    /\ companionConnect = "idle"
    /\ companionSocket = "undefined"
    /\ companionSession = << >>
    /\ companionBuffer = << >>
    /\ transferId = 0
    /\ pendingRequests = {}
    /\ requestTimers = {}
    /\ pendingFrameResolvers = << >>
    /\ frameTimers = {}
    /\ requests = << >>
    /\ written = 0
    /\ emitted = [event |-> 0, error |-> 0]
    /\ lastHandled = [handled |-> FALSE, value |-> OpackArray, pendingBefore |-> {},
                      fulfilled |-> {}, events |-> 0]
    /\ lastCall = [op |-> "none", outcome |-> "none", afterClose |-> FALSE]
    /\ closedPending = {}
    /\ peerSession = << >>
    /\ peerSent = 0
    /\ decryptFailures = 0

\* Settling a promise: the first resolve or reject decides it, later ones are
\* counted and change nothing.
Settle(req, how) ==
    [req EXCEPT !.status = IF @ = "pending" THEN how ELSE @, !.settles = @ + 1]

\* Ed25519 as an ideal signature: a signature names the key pair that made it
\* and the data it was made over, and verifies under that pair's public key
\* over that data only.
sign(data, privateKey) == [signer |-> privateKey, data |-> data]

cryptoVerify(data, publicKey, signature) ==
    signature.signer = publicKey /\ signature.data = data

\* The client's side of a pair-verify: its ephemeral X25519 public key and the
\* server's long-term key of the stored credentials.
ephemeralPublicKeyRaw == "clientEphemeral"

credentials == [clientId |-> "clientId", serverLTPK |-> "serverLTK"]

\* Pair-verify replies of the peer: the fields of the outer TLV, and of the
\* sub-TLV inside EncryptedData, which is sealed under the verify key or not.
M2(publicKey, encryptedData, identifier, signature, error) ==
    [PublicKey |-> publicKey, EncryptedData |-> encryptedData,
     Identifier |-> identifier, Signature |-> signature, Error |-> error]

\* The order the server signs in, and the order of the client's own proof.
ServerOrder == << "serverEphemeral", "serverId", "clientEphemeral" >>

ClientOrder == << "clientEphemeral", "serverId", "serverEphemeral" >>

M2Replies ==
    { M2(<< "serverEphemeral" >>, "sealed", << "serverId" >>,
         << sign(ServerOrder, "serverLTK") >>, << >>),
      M2(<< >>, "absent", << >>, << >>, << 2 >>),
      M2(<< "serverEphemeral" >>, "sealed", << "serverId" >>,
         << sign(ServerOrder, "serverLTK") >>, << 2 >>),
      M2(<< "serverEphemeral" >>, "forged", << "serverId" >>,
         << sign(ServerOrder, "serverLTK") >>, << >>),
      M2(<< "serverEphemeral" >>, "sealed", << >>,
         << sign(ServerOrder, "serverLTK") >>, << >>),
      M2(<< "serverEphemeral" >>, "sealed", << "serverId" >>, << >>, << >>),
      M2(<< "serverEphemeral" >>, "sealed", << "serverId" >>,
         << sign(ServerOrder, "impostorLTK") >>, << >>),
      M2(<< "serverEphemeral" >>, "sealed", << "serverId" >>,
         << sign(ClientOrder, "serverLTK") >>, << >>) }

M4Replies == { << >>, << 0 >>, << 2 >> }

\* The value of the Error field of a reply, 0 when the field is not there.
ErrorValue(error) == IF error = << >> THEN 0 ELSE error[1]

\* pairVerify from the M2 TLV to the point where M3 is sent: TRUE when no
\* check throws.
CompanionM2Accepted(m2) ==
    /\ m2.PublicKey # << >> /\ m2.EncryptedData # "absent"
    /\ m2.EncryptedData = "sealed"
    /\ m2.Identifier # << >> /\ m2.Signature # << >>
    /\ cryptoVerify(m2.PublicKey \o m2.Identifier \o << ephemeralPublicKeyRaw >>,
                    credentials.serverLTPK, m2.Signature[1])

\* pairVerify's check of M4: throws on an Error that is present and not 0.
CompanionM4Accepted(error) == ~(error # << >> /\ error[1] # 0)

\* connect(): openSocket() creates the socket and starts connecting.
CompanionConnectCall ==
    /\ companionConnect = "idle"
    /\ companionConnect' = "opening"
    /\ companionSocket' = "connecting"
    /\ lastCall' = [op |-> "connect", outcome |-> "none", afterClose |-> FALSE]
    /\ UNCHANGED << companionSession, companionBuffer, transferId, pendingRequests,
                    requestTimers, pendingFrameResolvers, frameTimers, requests,
                    written, emitted, lastHandled, closedPending,
                    peerSession, peerSent, decryptFailures >>
    /\ UNCHANGED << sessionVars, airVars, codecVars, pairVars, streamVars, hbVars, keyVars, loopVars >>

\* The socket connects: openSocket resolves, pairVerify sends M1 (PV_Start) and
\* waits for a PV_Next frame.
CompanionSocketConnected ==
    /\ companionConnect = "opening"
    /\ companionSocket = "connecting"
    /\ companionSocket' = "connected"
    /\ written' = written + 1
    /\ pendingFrameResolvers' = Append(pendingFrameResolvers, [type |-> PV_Next, id |-> 1])
    /\ frameTimers' = frameTimers \cup {1}
    /\ companionConnect' = "awaitM2"
    /\ UNCHANGED << companionSession, companionBuffer, transferId, pendingRequests,
                    requestTimers, requests, emitted, lastHandled, lastCall,
                    closedPending, peerSession, peerSent, decryptFailures >>
    /\ UNCHANGED << sessionVars, airVars, codecVars, pairVars, streamVars, hbVars, keyVars, loopVars >>

\* The socket fails to connect: the 'error' handler rejects and emits 'error'.
CompanionSocketError ==
    /\ companionConnect = "opening"
    /\ companionSocket = "connecting"
    /\ companionSocket' = "ended"
    /\ companionConnect' = "rejected"
    /\ emitted' = [emitted EXCEPT !.error = @ + 1]
    /\ UNCHANGED << companionSession, companionBuffer, transferId, pendingRequests,
                    requestTimers, pendingFrameResolvers, frameTimers, requests,
                    written, lastHandled, lastCall, closedPending, peerSession,
                    peerSent, decryptFailures >>
    /\ UNCHANGED << sessionVars, airVars, codecVars, pairVars, streamVars, hbVars, keyVars, loopVars >>

\* findIndex((r) => r.type === type): index of the first waiter of that type, 0
\* when there is none.
FirstResolver(resolvers, type) ==
    IF \E i \in 1..Len(resolvers) : resolvers[i].type = type
    THEN CHOOSE i \in 1..Len(resolvers) :
             /\ resolvers[i].type = type
             /\ \A j \in 1..(i - 1) : resolvers[j].type # type
    ELSE 0

\* splice(idx, 1)
Splice(seq, idx) == SubSeq(seq, 1, idx - 1) \o SubSeq(seq, idx + 1, Len(seq))

\* onData before the session exists, a PV_Next frame carrying M2 while
\* pairVerify waits for it: processRawFrames resolves the waiter (its timer is
\* cleared) and pairVerify goes on: a check throws and connect() rejects, or
\* M3 is written and the next PV_Next frame awaited.
CompanionReceiveM2(m2) ==
    /\ companionConnect = "awaitM2"
    /\ companionSocket = "connected"
    /\ companionSession = << >>
    /\ companionBuffer = << >>
    /\ LET idx == FirstResolver(pendingFrameResolvers, PV_Next)
       IN  /\ idx > 0
           /\ IF CompanionM2Accepted(m2)
              THEN /\ written' = written + 1
                   /\ pendingFrameResolvers' =
                          Append(Splice(pendingFrameResolvers, idx),
                                 [type |-> PV_Next, id |-> 2])
                   /\ frameTimers' = (frameTimers \ {pendingFrameResolvers[idx].id}) \cup {2}
                   /\ companionConnect' = "awaitM4"
              ELSE /\ written' = written
                   /\ pendingFrameResolvers' = Splice(pendingFrameResolvers, idx)
                   /\ frameTimers' = frameTimers \ {pendingFrameResolvers[idx].id}
                   /\ companionConnect' = "rejected"
    /\ UNCHANGED << companionSocket, companionSession, companionBuffer, transferId,
                    pendingRequests, requestTimers, requests, emitted, lastHandled,
                    lastCall, closedPending, peerSession, peerSent, decryptFailures >>
    /\ UNCHANGED << sessionVars, airVars, codecVars, pairing, streamVars, hbVars, keyVars, loopVars >>
    /\ verifyLog' = [verifyLog EXCEPT !.companion.m2 = << m2 >>,
                                      !.companion.m3 = CompanionM2Accepted(m2)]

\* onData before the session exists, a PV_Next frame carrying M4: an Error
\* other than 0 rejects connect(); otherwise the two keys are being derived
\* (two awaited HKDF calls) and the peer, having sent M4, holds its session.
CompanionReceiveM4(error) ==
    /\ companionConnect = "awaitM4"
    /\ companionSocket = "connected"
    /\ companionSession = << >>
    /\ companionBuffer = << >>
    /\ LET idx == FirstResolver(pendingFrameResolvers, PV_Next)
       IN  /\ idx > 0
           /\ pendingFrameResolvers' = Splice(pendingFrameResolvers, idx)
           /\ frameTimers' = frameTimers \ {pendingFrameResolvers[idx].id}
    /\ companionConnect' = IF CompanionM4Accepted(error) THEN "deriving" ELSE "rejected"
    /\ peerSession' = IF CompanionM4Accepted(error)
                      THEN << NewCompanionSession("ServerEncrypt-main", "ClientEncrypt-main") >>
                      ELSE peerSession
    /\ UNCHANGED << companionSocket, companionSession, companionBuffer, transferId,
                    pendingRequests, requestTimers, requests, written, emitted,
                    lastHandled, lastCall, closedPending, peerSent, decryptFailures >>
    /\ UNCHANGED << sessionVars, airVars, codecVars, pairing, streamVars, hbVars, keyVars, loopVars >>
    /\ verifyLog' = [verifyLog EXCEPT !.companion.m4 = << ErrorValue(error) >>,
                                      !.companion.keys = CompanionM4Accepted(error)]

\* waitForFrame's timer fires: its own entry is removed and pairVerify, hence
\* connect(), rejects.
CompanionFrameTimeout(id) ==
    /\ id \in frameTimers
    /\ frameTimers' = frameTimers \ {id}
    /\ pendingFrameResolvers' =
           SelectSeq(pendingFrameResolvers, LAMBDA r : r.id # id)
    /\ companionConnect' = "rejected"
    /\ UNCHANGED << companionSocket, companionSession, companionBuffer, transferId,
                    pendingRequests, requestTimers, requests, written, emitted,
                    lastHandled, lastCall, closedPending, peerSession, peerSent,
                    decryptFailures >>
    /\ UNCHANGED << sessionVars, airVars, codecVars, pairVars, streamVars, hbVars, keyVars, loopVars >>

\* The keys are derived: pairVerify installs the session and connect() resolves,
\* whatever happened to the socket meanwhile.
CompanionInstallSession ==
    /\ companionConnect = "deriving"
    /\ companionSession' = << NewCompanionSession("ClientEncrypt-main", "ServerEncrypt-main") >>
    /\ companionConnect' = "resolved"
    /\ UNCHANGED << companionSocket, companionBuffer, transferId, pendingRequests,
                    requestTimers, pendingFrameResolvers, frameTimers, requests,
                    written, emitted, lastHandled, lastCall, closedPending,
                    peerSession, peerSent, decryptFailures >>
    /\ UNCHANGED << sessionVars, airVars, codecVars, pairVars, streamVars, hbVars, keyVars, loopVars >>

Connected == companionSession # << >> /\ companionSocket # "undefined"

\* sendRequest(identifier, content) on a connected connection: the next
\* transfer id, one encrypted frame written, then the timer armed and the entry
\* registered.
SendRequest ==
    /\ Connected
    /\ transferId < MaxRequests
    /\ LET tid == transferId
           payload == opackEncode(OpackMap(NumberX(tid)))
           r == CompanionEncrypt(companionSession[1], E_OPACK, payload)
       IN  /\ transferId' = transferId + 1
           /\ companionSession' = << r.session >>
           /\ written' = written + 1
           /\ requestTimers' = requestTimers \cup {tid}
           /\ pendingRequests' = pendingRequests \cup {tid}
           /\ requests' = Append(requests, [tid |-> tid, status |-> "pending", settles |-> 0])
           /\ lastCall' = [op |-> "sendRequest", outcome |-> "sent",
                           afterClose |-> lastCall.afterClose]
    /\ UNCHANGED << companionConnect, companionSocket, companionBuffer,
                    pendingFrameResolvers, frameTimers, emitted, lastHandled,
                    closedPending, peerSession, peerSent, decryptFailures >>
    /\ UNCHANGED << sessionVars, airVars, codecVars, pairVars, streamVars, hbVars, keyVars, loopVars >>

\* sendMessage(identifier, content) on a connected connection.
SendMessage ==
    /\ Connected
    /\ written < MaxRequests + MaxMessages + 2
    /\ LET r == CompanionEncrypt(companionSession[1], E_OPACK, opackEncode(OpackMap(NoX)))
       IN  /\ companionSession' = << r.session >>
           /\ written' = written + 1
           /\ lastCall' = [op |-> "sendMessage", outcome |-> "sent",
                           afterClose |-> lastCall.afterClose]
    /\ UNCHANGED << companionConnect, companionSocket, companionBuffer, transferId,
                    pendingRequests, requestTimers, pendingFrameResolvers, frameTimers,
                    requests, emitted, lastHandled, closedPending, peerSession,
                    peerSent, decryptFailures >>
    /\ UNCHANGED << sessionVars, airVars, codecVars, pairVars, streamVars, hbVars, keyVars, loopVars >>

\* sendRequest or sendMessage while the session or the socket is undefined:
\* throws 'Companion not connected' before anything else happens.
SendNotConnected(op) ==
    /\ ~Connected
    /\ lastCall' = [op |-> op, outcome |-> "Companion not connected",
                    afterClose |-> lastCall.afterClose]
    /\ UNCHANGED << companionConnect, companionSocket, companionSession,
                    companionBuffer, transferId, pendingRequests, requestTimers,
                    pendingFrameResolvers, frameTimers, requests, written, emitted,
                    lastHandled, closedPending, peerSession, peerSent,
                    decryptFailures >>
    /\ UNCHANGED << sessionVars, airVars, codecVars, pairVars, streamVars, hbVars, keyVars, loopVars >>

\* Mutant of RequestTimeout: the timer callback clears the whole registry.
RequestTimeout_ClearsRegistry(tid) ==
    /\ tid \in requestTimers
    /\ requestTimers' = requestTimers \ {tid}
    /\ pendingRequests' = {}
    /\ requests' = [requests EXCEPT ![tid + 1] = Settle(@, "timeout")]
    /\ UNCHANGED << companionConnect, companionSocket, companionSession,
                    companionBuffer, transferId, pendingFrameResolvers, frameTimers,
                    written, emitted, lastHandled, lastCall, closedPending,
                    peerSession, peerSent, decryptFailures >>
    /\ UNCHANGED << sessionVars, airVars, codecVars, pairVars, streamVars, hbVars, keyVars, loopVars >>

\* The timer of sendRequest fires: the entry is deleted and the promise rejected.
RequestTimeout(tid) ==
    /\ tid \in requestTimers
    /\ requestTimers' = requestTimers \ {tid}
    /\ pendingRequests' = pendingRequests \ {tid}
    /\ requests' = [requests EXCEPT ![tid + 1] = Settle(@, "timeout")]
    /\ UNCHANGED << companionConnect, companionSocket, companionSession,
                    companionBuffer, transferId, pendingFrameResolvers, frameTimers,
                    written, emitted, lastHandled, lastCall, closedPending,
                    peerSession, peerSent, decryptFailures >>
    /\ UNCHANGED << sessionVars, airVars, codecVars, pairVars, streamVars, hbVars, keyVars, loopVars >>

\* Mutant of Close: the registry is cleared without rejecting its entries.
Close_NoReject ==
    /\ lastCall.op # "close"
    /\ closedPending' = closedPending \cup pendingRequests
    /\ pendingRequests' = {}
    /\ companionSocket' = "undefined"
    /\ companionSession' = << >>
    /\ lastCall' = [op |-> "close", outcome |-> "closed", afterClose |-> TRUE]
    /\ UNCHANGED << companionConnect, companionBuffer, transferId, requests,
                    requestTimers, pendingFrameResolvers, frameTimers, written,
                    emitted, lastHandled, peerSession, peerSent, decryptFailures >>
    /\ UNCHANGED << sessionVars, airVars, codecVars, pairVars, streamVars, hbVars, keyVars, loopVars >>

\* close(): every registered entry's reject runs (which clears its timer), the
\* registry is cleared, the socket destroyed and both fields set to undefined.
Close ==
    /\ lastCall.op # "close"
    /\ requests' = [i \in 1..Len(requests) |->
                        IF requests[i].tid \in pendingRequests
                        THEN Settle(requests[i], "closed") ELSE requests[i]]
    /\ requestTimers' = requestTimers \ pendingRequests
    /\ closedPending' = closedPending \cup pendingRequests
    /\ pendingRequests' = {}
    /\ companionSocket' = "undefined"
    /\ companionSession' = << >>
    /\ lastCall' = [op |-> "close", outcome |-> "closed", afterClose |-> TRUE]
    /\ UNCHANGED << companionConnect, companionBuffer, transferId,
                    pendingFrameResolvers, frameTimers, written, emitted, lastHandled,
                    peerSession, peerSent, decryptFailures >>
    /\ UNCHANGED << sessionVars, airVars, codecVars, pairVars, streamVars, hbVars, keyVars, loopVars >>

\* The peer closes the connection: the socket object stays in this.socket.
RemoteClose ==
    /\ companionSocket = "connected"
    /\ companionSocket' = "ended"
    /\ UNCHANGED << companionConnect, companionSession, companionBuffer, transferId,
                    pendingRequests, requestTimers, pendingFrameResolvers, frameTimers,
                    requests, written, emitted, lastHandled, lastCall, closedPending,
                    peerSession, peerSent, decryptFailures >>
    /\ UNCHANGED << sessionVars, airVars, codecVars, pairVars, streamVars, hbVars, keyVars, loopVars >>

\* Mutant of HandleMessage: the return after resolving the request is missing,
\* so a response is also emitted as an event.
HandleMessage_NoReturn(value) ==
    IF value.kind = "map" /\ value.x.type = "number" /\ value.x.value \in pendingRequests
    THEN /\ pendingRequests' = pendingRequests \ {value.x.value}
         /\ requestTimers' = requestTimers \ {value.x.value}
         /\ requests' = [requests EXCEPT ![value.x.value + 1] = Settle(@, "fulfilled")]
         /\ emitted' = [emitted EXCEPT !.event = @ + 1]
    ELSE /\ UNCHANGED << pendingRequests, requestTimers, requests >>
         /\ emitted' = [emitted EXCEPT !.event = @ + 1]

\* Mutant of HandleMessage: the entry stays in the registry after it resolved.
HandleMessage_NoDelete(value) ==
    IF value.kind = "map" /\ value.x.type = "number" /\ value.x.value \in pendingRequests
    THEN /\ pendingRequests' = pendingRequests
         /\ requestTimers' = requestTimers \ {value.x.value}
         /\ requests' = [requests EXCEPT ![value.x.value + 1] = Settle(@, "fulfilled")]
         /\ emitted' = emitted
    ELSE /\ UNCHANGED << pendingRequests, requestTimers, requests >>
         /\ emitted' = [emitted EXCEPT !.event = @ + 1]

\* handleMessage(value): a value that is no map is dropped; a map whose _x is a
\* number with a registered entry deletes the entry and resolves it (clearing
\* its timer); any other map is emitted as 'event'.
HandleMessage(value) ==
    IF value.kind # "map"
    THEN /\ UNCHANGED << pendingRequests, requestTimers, requests, emitted >>
    ELSE IF value.x.type = "number" /\ value.x.value \in pendingRequests
    THEN /\ pendingRequests' = pendingRequests \ {value.x.value}
         /\ requestTimers' = requestTimers \ {value.x.value}
         /\ requests' = [requests EXCEPT ![value.x.value + 1] = Settle(@, "fulfilled")]
         /\ emitted' = emitted
    ELSE /\ UNCHANGED << pendingRequests, requestTimers, requests >>
         /\ emitted' = [emitted EXCEPT !.event = @ + 1]

\* What the peer may send once it holds its session.
InboundValues ==
    { OpackMap(NumberX(n)) : n \in 0..(MaxRequests - 1) }
        \cup { OpackMap(NoX), OpackMap(StringX), OpackArray }

\* The leftover of an encrypted frame read by parseFrames, or of any bytes read
\* at the wrong offset: from then on no frame boundary is found again.
Garbage == << [id |-> "tag", off |-> 0, len |-> 16] >>

\* One iteration of the loop of processEncryptedFrames on a complete frame:
\* decrypt, decode, handleMessage; a throw from decrypt or decode is caught and
\* emitted as 'error', and the loop goes on.
ProcessEncryptedFrame(frame) ==
    LET r == CompanionDecrypt(companionSession[1], frame.header,
                 [ciphertext |-> frame.ciphertext, tag |-> frame.tag])
        decoded == opackDecode(r.plaintext)
    IN  /\ companionSession' = << r.session >>
        /\ IF r.ok /\ decoded.ok
           THEN /\ HandleMessage(decoded.value)
                /\ lastHandled' =
                       [handled |-> TRUE, value |-> decoded.value,
                        pendingBefore |-> pendingRequests,
                        fulfilled |-> { t \in 0..(transferId - 1) :
                                          /\ requests[t + 1].settles # requests'[t + 1].settles
                                          /\ requests'[t + 1].status = "fulfilled" },
                        events |-> emitted'.event - emitted.event]
                /\ UNCHANGED decryptFailures
           ELSE /\ emitted' = [emitted EXCEPT !.error = @ + 1]
                /\ decryptFailures' = IF r.ok THEN decryptFailures ELSE decryptFailures + 1
                /\ UNCHANGED << pendingRequests, requestTimers, requests, lastHandled >>

\* The peer encrypts a value and the frame arrives: intact, with its tag
\* damaged on the way, or with its payload cut short before encryption.
\* onData takes the encrypted path when the session exists; before that
\* (the keys are still being derived) processRawFrames reads the frame as a
\* plaintext frame, finds no waiter for it and keeps the 16 tag bytes as the
\* start of the next frame.
PeerFrame(value, fault) ==
    /\ peerSession # << >>
    /\ peerSent < MaxInbound
    /\ companionSocket = "connected"
    /\ LET payload == IF fault = "truncated" THEN Truncated(value) ELSE opackEncode(value)
           e == CompanionEncrypt(peerSession[1], E_OPACK, payload)
           frame == IF fault = "tag" THEN [e.frame EXCEPT !.tag.nonce.zero = 1]
                    ELSE e.frame
       IN  /\ peerSession' = << e.session >>
           /\ peerSent' = peerSent + 1
           /\ IF companionSession = << >>
              THEN /\ companionBuffer' = Garbage
                   /\ UNCHANGED << companionSession, pendingRequests, requestTimers,
                                   requests, emitted, lastHandled, decryptFailures >>
              ELSE IF companionBuffer # << >>
              THEN \* bytes read at the wrong offset: nothing completes, or a
                   \* frame of arbitrary bytes completes and fails to decrypt
                   /\ UNCHANGED << companionBuffer, pendingRequests, requestTimers,
                                   requests, lastHandled >>
                   /\ \/ UNCHANGED << companionSession, emitted, decryptFailures >>
                      \/ /\ companionSession' =
                                << [companionSession[1] EXCEPT !.inCounter = @ + 1] >>
                         /\ emitted' = [emitted EXCEPT !.error = @ + 1]
                         /\ decryptFailures' = decryptFailures + 1
              ELSE /\ ProcessEncryptedFrame(frame)
                   /\ UNCHANGED companionBuffer
    /\ UNCHANGED << companionConnect, companionSocket, transferId,
                    pendingFrameResolvers, frameTimers, written, lastCall,
                    closedPending >>
    /\ UNCHANGED << sessionVars, airVars, codecVars, pairVars, streamVars, hbVars, keyVars, loopVars >>

NextCompanion ==
    \/ CompanionConnectCall
    \/ CompanionSocketConnected
    \/ CompanionSocketError
    \/ \E m2 \in M2Replies : CompanionReceiveM2(m2)
    \/ \E error \in M4Replies : CompanionReceiveM4(error)
    \/ \E id \in frameTimers : CompanionFrameTimeout(id)
    \/ CompanionInstallSession
    \/ SendRequest
    \/ SendMessage
    \/ \E op \in {"sendRequest", "sendMessage"} : SendNotConnected(op)
    \/ \E tid \in requestTimers : RequestTimeout(tid)
    \/ Close
    \/ RemoteClose
    \/ \E value \in InboundValues : \E fault \in {"none", "tag", "truncated"} :
           PeerFrame(value, fault)

(***************************************************************************)
(* util/tlv.ts                                                             *)
(*                                                                         *)
(* A TlvData is a function from its tags to buffers.  The encoded buffer is *)
(* kept as the sequence of its items, each the two header bytes and the     *)
(* value bytes that follow them.                                            *)
(***************************************************************************)
ChunkLimit == 255

\* Object.entries(data) of an object with integer keys: ascending keys.
RECURSIVE Entries(_)
Entries(tags) ==
    IF tags = {} THEN << >>
    ELSE LET tag == CHOOSE t \in tags : \A u \in tags : t <= u
         IN  << tag >> \o Entries(tags \ {tag})

\* A fragment loop that fills the length byte to 256.
RECURSIVE TlvChunks_Limit256(_, _, _)
TlvChunks_Limit256(tag, value, offset) ==
    IF offset < BufLen(value)
    THEN LET chunkSize == Min(ChunkLimit + 1, BufLen(value) - offset)
         IN  << [tag |-> tag, length |-> chunkSize,
                 value |-> Subarray(value, offset, offset + chunkSize)] >>
                 \o TlvChunks_Limit256(tag, value, offset + chunkSize)
    ELSE << >>

\* The while loop of tlvEncode over one value, from offset on.
RECURSIVE TlvChunks(_, _, _)
TlvChunks(tag, value, offset) ==
    IF offset < BufLen(value)
    THEN LET chunkSize == Min(ChunkLimit, BufLen(value) - offset)
         IN  << [tag |-> tag, length |-> chunkSize,
                 value |-> Subarray(value, offset, offset + chunkSize)] >>
                 \o TlvChunks(tag, value, offset + chunkSize)
    ELSE << >>

\* Mutant of TlvItems: nothing is written for an empty value.
RECURSIVE TlvItems_NoEmpty(_, _)
TlvItems_NoEmpty(data, entries) ==
    IF entries = << >> THEN << >>
    ELSE TlvChunks(Head(entries), data[Head(entries)], 0)
             \o TlvItems_NoEmpty(data, Tail(entries))

\* The for loop of tlvEncode over the entries.
RECURSIVE TlvItems(_, _)
TlvItems(data, entries) ==
    IF entries = << >> THEN << >>
    ELSE LET tag == Head(entries)
             value == data[tag]
         IN  TlvChunks(tag, value, 0)
                 \o (IF BufLen(value) = 0
                     THEN << [tag |-> tag, length |-> 0, value |-> << >>] >>
                     ELSE << >>)
                 \o TlvItems(data, Tail(entries))

tlvEncode(data) == TlvItems(data, Entries(DOMAIN data))

\* The while loop of tlvDecode, item by item.
RECURSIVE TlvDecodeLoop(_, _)
TlvDecodeLoop(buf, result) ==
    IF buf = << >> THEN result
    ELSE LET tag == Head(buf).tag
             length == Head(buf).length
             value == Subarray(Head(buf).value, 0, length)
         IN  TlvDecodeLoop(Tail(buf),
                 IF tag \in DOMAIN result
                 THEN [result EXCEPT ![tag] = Concat(@, value)]
                 ELSE result @@ (tag :> value))

tlvDecode(buf) == TlvDecodeLoop(buf, << >>)

(***************************************************************************)
(* companion/opack.ts, byte by byte                                        *)
(*                                                                         *)
(* A value is a record with its JavaScript type in t: null, bool, number    *)
(* (an integer v), float (a number that is no integer, by its 8 bytes),     *)
(* bigint (by the 8 bytes of its 64-bit form, low byte first), string (by   *)
(* its utf-8 bytes), data, array (items) and dict (pairs in insertion       *)
(* order).  A buffer is a sequence of tokens: a byte the encoder wrote as a *)
(* number, or a run of the bytes of a string, a float or a data value.      *)
(* Numbers stay within 32 bits.                                            *)
(***************************************************************************)
TAG_NULL == 4
TAG_TRUE == 1
TAG_FALSE == 2
TAG_TERMINATOR == 3
TAG_UUID == 5
TAG_SMALL_INT_BASE == 8
TAG_SMALL_INT_MAX_VALUE == 39
TAG_INT8 == 48
TAG_INT16 == 49
TAG_INT32 == 50
TAG_INT64 == 51
TAG_FLOAT32 == 53
TAG_FLOAT64 == 54
TAG_STRING_BASE == 64
TAG_STRING_LEN8 == 97
TAG_STRING_LEN16 == 98
TAG_STRING_LEN24 == 99
TAG_STRING_LEN32 == 100
TAG_DATA_BASE == 112
TAG_DATA_LEN8 == 145
TAG_DATA_LEN16 == 146
TAG_DATA_LEN32 == 147
TAG_ARRAY_BASE == 208
TAG_ARRAY_OVERFLOW == 15
TAG_DICT_BASE == 224
TAG_DICT_OVERFLOW == 15

NullV == [t |-> "null"]
BoolV(b) == [t |-> "bool", b |-> b]
NumberV(n) == [t |-> "number", v |-> n]
FloatV(bits) == [t |-> "float", bits |-> bits]
BigIntV(bytes) == [t |-> "bigint", bytes |-> bytes]
StringV(utf8) == [t |-> "string", utf8 |-> utf8]
DataV(data) == [t |-> "data", data |-> data]
ArrayV(items) == [t |-> "array", items |-> items]
DictV(pairs) == [t |-> "dict", pairs |-> pairs]
Thrown == [t |-> "thrown"]

\* Buffer.from([...bytes]) and the bytes of a value, as tokens.
Lit(bytes) == [i \in 1..Len(bytes) |-> [lit |-> TRUE, byte |-> bytes[i], data |-> << >>]]

Run(data) == IF data = << >> THEN << >> ELSE << [lit |-> FALSE, byte |-> 0, data |-> data] >>

RECURSIVE ByteLength(_)
ByteLength(buf) ==
    IF buf = << >> THEN 0
    ELSE (IF Head(buf).lit THEN 1 ELSE BufLen(Head(buf).data)) + ByteLength(Tail(buf))

\* The tokens from byte offset on.
RECURSIVE Seek(_, _)
Seek(buf, offset) ==
    IF offset = 0 \/ buf = << >> THEN buf
    ELSE LET h == Head(buf)
             n == IF h.lit THEN 1 ELSE BufLen(h.data)
         IN  IF offset >= n THEN Seek(Tail(buf), offset - n)
             ELSE << [h EXCEPT !.data = Subarray(h.data, offset, n)] >> \o Tail(buf)

\* buf[offset]; a byte of a run has no number here and reads as -1.
ByteAt(buf, offset) ==
    LET s == Seek(buf, offset)
    IN  IF s # << >> /\ s[1].lit THEN s[1].byte ELSE -1

\* buf.subarray(start, end) of the bytes of a run.
RunAt(buf, start, end) ==
    LET s == Seek(buf, start)
    IN  IF end > start /\ s # << >> /\ ~s[1].lit THEN Subarray(s[1].data, 0, end - start)
        ELSE << >>

\* writeUIntLE(value, 1, n) and readUIntLE(offset, n).
RECURSIVE WriteUIntLE(_, _)
WriteUIntLE(value, n) ==
    IF n = 0 THEN << >> ELSE << value % 256 >> \o WriteUIntLE(value \div 256, n - 1)

RECURSIVE ReadUIntLE(_, _, _)
ReadUIntLE(buf, offset, n) ==
    IF n = 0 THEN 0 ELSE ByteAt(buf, offset) + 256 * ReadUIntLE(buf, offset + 1, n - 1)

\* writeBigInt64LE(BigInt(value)): two's complement over 8 bytes.
WriteBigInt64LE(value) ==
    IF value >= 0 THEN WriteUIntLE(value, 4) \o << 0, 0, 0, 0 >>
    ELSE LET low == value + 2147483647 + 1
         IN  << low % 256, (low \div 256) % 256, (low \div 65536) % 256,
                (low \div 16777216) + 128, 255, 255, 255, 255 >>

\* The eight bytes at offset, as numbers.
EightBytes(buf, offset) == [i \in 1..8 |-> ByteAt(buf, offset + i - 1)]

\* encodeInteger(value, parts); 0xffffffff is beyond the numbers kept here, so
\* the last case is that of the negative integers.
encodeInteger(value) ==
    IF value >= 0 /\ value <= TAG_SMALL_INT_MAX_VALUE THEN Lit(<< TAG_SMALL_INT_BASE + value >>)
    ELSE IF value >= 0 /\ value <= 255 THEN Lit(<< TAG_INT8, value >>)
    ELSE IF value >= 0 /\ value <= 65535 THEN Lit(<< TAG_INT16 >> \o WriteUIntLE(value, 2))
    ELSE IF value >= 0 THEN Lit(<< TAG_INT32 >> \o WriteUIntLE(value, 4))
    ELSE Lit(<< TAG_INT64 >> \o WriteBigInt64LE(value))

encodeBigInt(value) == Lit(<< TAG_INT64 >> \o value.bytes)

encodeFloat(value) == Lit(<< TAG_FLOAT64 >>) \o Run(value.bits)

encodeString(value) ==
    LET data == value.utf8
        len == BufLen(data)
    IN  (IF len <= 32 THEN Lit(<< TAG_STRING_BASE + len >>)
         ELSE IF len <= 255 THEN Lit(<< TAG_STRING_LEN8, len >>)
         ELSE IF len <= 65535 THEN Lit(<< TAG_STRING_LEN16 >> \o WriteUIntLE(len, 2))
         ELSE IF len <= 16777215 THEN Lit(<< TAG_STRING_LEN24 >> \o WriteUIntLE(len, 3))
         ELSE Lit(<< TAG_STRING_LEN32 >> \o WriteUIntLE(len, 4)))
            \o Run(data)

encodeData(value) ==
    LET len == BufLen(value.data)
    IN  (IF len <= 32 THEN Lit(<< TAG_DATA_BASE + len >>)
         ELSE IF len <= 255 THEN Lit(<< TAG_DATA_LEN8, len >>)
         ELSE IF len <= 65535 THEN Lit(<< TAG_DATA_LEN16 >> \o WriteUIntLE(len, 2))
         ELSE Lit(<< TAG_DATA_LEN32 >> \o WriteUIntLE(len, 4)))
            \o Run(value.data)

RECURSIVE encodeValue(_)
RECURSIVE EncodeItems(_)
RECURSIVE EncodePairs(_)

\* The for loops of encodeArray and encodeDict.
EncodeItems(items) ==
    IF items = << >> THEN << >> ELSE encodeValue(Head(items)) \o EncodeItems(Tail(items))

EncodePairs(pairs) ==
    IF pairs = << >> THEN << >>
    ELSE encodeValue(Head(pairs)[1]) \o encodeValue(Head(pairs)[2])
             \o EncodePairs(Tail(pairs))

encodeArray(value) ==
    LET count == Len(value.items)
    IN  Lit(<< TAG_ARRAY_BASE + Min(count, TAG_ARRAY_OVERFLOW) >>)
            \o EncodeItems(value.items)
            \o (IF count >= TAG_ARRAY_OVERFLOW THEN Lit(<< TAG_TERMINATOR >>) ELSE << >>)

encodeDict(value) ==
    LET count == Len(value.pairs)
    IN  Lit(<< TAG_DICT_BASE + Min(count, TAG_DICT_OVERFLOW) >>)
            \o EncodePairs(value.pairs)
            \o (IF count >= TAG_DICT_OVERFLOW THEN Lit(<< TAG_TERMINATOR >>) ELSE << >>)

\* encodeValue(value, parts): what is pushed to parts, concatenated.
encodeValue(value) ==
    CASE value.t = "null" -> Lit(<< TAG_NULL >>)
      [] value.t = "bool" -> Lit(<< IF value.b THEN TAG_TRUE ELSE TAG_FALSE >>)
      [] value.t = "bigint" -> encodeBigInt(value)
      [] value.t = "number" -> encodeInteger(value.v)
      [] value.t = "float" -> encodeFloat(value)
      [] value.t = "string" -> encodeString(value)
      [] value.t = "data" -> encodeData(value)
      [] value.t = "array" -> encodeArray(value)
      [] value.t = "dict" -> encodeDict(value)

\* dict.set(key, value): a key equal to a key of the map, as numbers, strings,
\* booleans and null are, takes its place; buffers, arrays and maps are keys
\* of their own.
MapSet(pairs, key, value) ==
    LET same == { i \in 1..Len(pairs) :
                      /\ pairs[i][1].t = key.t
                      /\ key.t \in { "null", "bool", "number", "float", "bigint", "string" }
                      /\ pairs[i][1] = key }
    IN  IF same = {} THEN Append(pairs, << key, value >>)
        ELSE [pairs EXCEPT ![CHOOSE i \in same : TRUE] = << key, value >>]

RECURSIVE decodeValue(_, _)
RECURSIVE decodeArrayN(_, _, _, _)
RECURSIVE decodeArrayTerminated(_, _, _)
RECURSIVE decodeDictN(_, _, _, _)
RECURSIVE decodeDictTerminated(_, _, _)

\* decodeArrayN(buf, offset, count), arr being the items decoded so far.
decodeArrayN(buf, offset, count, arr) ==
    IF count = 0 THEN [value |-> ArrayV(arr), offset |-> offset]
    ELSE LET item == decodeValue(buf, offset)
         IN  IF item.value.t = "thrown" THEN item
             ELSE decodeArrayN(buf, item.offset, count - 1, Append(arr, item.value))

decodeArrayTerminated(buf, offset, arr) ==
    IF offset < ByteLength(buf) /\ ByteAt(buf, offset) # TAG_TERMINATOR
    THEN LET item == decodeValue(buf, offset)
         IN  IF item.value.t = "thrown" THEN item
             ELSE decodeArrayTerminated(buf, item.offset, Append(arr, item.value))
    ELSE [value |-> ArrayV(arr),
          offset |-> IF offset < ByteLength(buf) THEN offset + 1 ELSE offset]

decodeDictN(buf, offset, count, dict) ==
    IF count = 0 THEN [value |-> DictV(dict), offset |-> offset]
    ELSE LET key == decodeValue(buf, offset)
             val == decodeValue(buf, key.offset)
         IN  IF key.value.t = "thrown" THEN key
             ELSE IF val.value.t = "thrown" THEN val
             ELSE decodeDictN(buf, val.offset, count - 1,
                              MapSet(dict, key.value, val.value))

decodeDictTerminated(buf, offset, dict) ==
    IF offset < ByteLength(buf) /\ ByteAt(buf, offset) # TAG_TERMINATOR
    THEN LET key == decodeValue(buf, offset)
             val == decodeValue(buf, key.offset)
         IN  IF key.value.t = "thrown" THEN key
             ELSE IF val.value.t = "thrown" THEN val
             ELSE decodeDictTerminated(buf, val.offset,
                                       MapSet(dict, key.value, val.value))
    ELSE [value |-> DictV(dict),
          offset |-> IF offset < ByteLength(buf) THEN offset + 1 ELSE offset]

\* The value read at TAG_INT64: readBigUInt64LE, a number when it is at most
\* Number.MAX_SAFE_INTEGER (2^53 - 1) and 32 bits hold it, else the bigint.
DecodeInt64(bytes) ==
    IF bytes[5] = 0 /\ bytes[6] = 0 /\ bytes[7] = 0 /\ bytes[8] = 0 /\ bytes[4] < 128
    THEN NumberV(bytes[1] + 256 * bytes[2] + 65536 * bytes[3] + 16777216 * bytes[4])
    ELSE BigIntV(bytes)

\* A string or data value of len bytes after a header of h bytes.
DecodeRun(buf, offset, h, len, string) ==
    LET bytes == RunAt(buf, offset + h, offset + h + len)
    IN  [value |-> IF string THEN StringV(bytes) ELSE DataV(bytes),
         offset |-> offset + h + len]

decodeValue(buf, offset) ==
    IF offset >= ByteLength(buf) THEN [value |-> Thrown, offset |-> offset]
    ELSE LET tag == ByteAt(buf, offset)
         IN  CASE tag = TAG_NULL -> [value |-> NullV, offset |-> offset + 1]
               [] tag = TAG_TRUE -> [value |-> BoolV(TRUE), offset |-> offset + 1]
               [] tag = TAG_FALSE -> [value |-> BoolV(FALSE), offset |-> offset + 1]
               [] tag = TAG_UUID ->
                      [value |-> DataV(RunAt(buf, offset + 1, offset + 17)),
                       offset |-> offset + 17]
               [] tag >= TAG_SMALL_INT_BASE
                      /\ tag <= TAG_SMALL_INT_BASE + TAG_SMALL_INT_MAX_VALUE ->
                      [value |-> NumberV(tag - TAG_SMALL_INT_BASE), offset |-> offset + 1]
               [] tag = TAG_INT8 ->
                      [value |-> NumberV(ReadUIntLE(buf, offset + 1, 1)),
                       offset |-> offset + 2]
               [] tag = TAG_INT16 ->
                      [value |-> NumberV(ReadUIntLE(buf, offset + 1, 2)),
                       offset |-> offset + 3]
               [] tag = TAG_INT32 ->
                      [value |-> NumberV(ReadUIntLE(buf, offset + 1, 4)),
                       offset |-> offset + 5]
               [] tag = TAG_INT64 ->
                      [value |-> DecodeInt64(EightBytes(buf, offset + 1)),
                       offset |-> offset + 9]
               [] tag = TAG_FLOAT32 ->
                      [value |-> FloatV(RunAt(buf, offset + 1, offset + 5)),
                       offset |-> offset + 5]
               [] tag = TAG_FLOAT64 ->
                      [value |-> FloatV(RunAt(buf, offset + 1, offset + 9)),
                       offset |-> offset + 9]
               [] tag >= TAG_STRING_BASE /\ tag <= TAG_STRING_BASE + 32 ->
                      DecodeRun(buf, offset, 1, tag - TAG_STRING_BASE, TRUE)
               [] tag = TAG_STRING_LEN8 ->
                      DecodeRun(buf, offset, 2, ReadUIntLE(buf, offset + 1, 1), TRUE)
               [] tag = TAG_STRING_LEN16 ->
                      DecodeRun(buf, offset, 3, ReadUIntLE(buf, offset + 1, 2), TRUE)
               [] tag = TAG_STRING_LEN24 ->
                      DecodeRun(buf, offset, 4, ReadUIntLE(buf, offset + 1, 3), TRUE)
               [] tag = TAG_STRING_LEN32 ->
                      DecodeRun(buf, offset, 5, ReadUIntLE(buf, offset + 1, 4), TRUE)
               [] tag >= TAG_DATA_BASE /\ tag <= TAG_DATA_BASE + 32 ->
                      DecodeRun(buf, offset, 1, tag - TAG_DATA_BASE, FALSE)
               [] tag = TAG_DATA_LEN8 ->
                      DecodeRun(buf, offset, 2, ReadUIntLE(buf, offset + 1, 1), FALSE)
               [] tag = TAG_DATA_LEN16 ->
                      DecodeRun(buf, offset, 3, ReadUIntLE(buf, offset + 1, 2), FALSE)
               [] tag = TAG_DATA_LEN32 ->
                      DecodeRun(buf, offset, 5, ReadUIntLE(buf, offset + 1, 4), FALSE)
               [] tag >= TAG_ARRAY_BASE /\ tag < TAG_ARRAY_BASE + TAG_ARRAY_OVERFLOW ->
                      decodeArrayN(buf, offset + 1, tag - TAG_ARRAY_BASE, << >>)
               [] tag = TAG_ARRAY_BASE + TAG_ARRAY_OVERFLOW ->
                      decodeArrayTerminated(buf, offset + 1, << >>)
               [] tag >= TAG_DICT_BASE /\ tag < TAG_DICT_BASE + TAG_DICT_OVERFLOW ->
                      decodeDictN(buf, offset + 1, tag - TAG_DICT_BASE, << >>)
               [] tag = TAG_DICT_BASE + TAG_DICT_OVERFLOW ->
                      decodeDictTerminated(buf, offset + 1, << >>)
               [] OTHER -> [value |-> Thrown, offset |-> offset]

(***************************************************************************)
(* companion/framing.ts, byte by byte                                      *)
(*                                                                         *)
(* A buffer is a sequence of tokens as above: the four header bytes are    *)
(* numbers, a payload is a run of bytes.                                    *)
(***************************************************************************)
FrameHeaderSize == 4

\* The first n bytes of a buffer, and buffer.subarray(start, end).
RECURSIVE TakeBytes(_, _)
TakeBytes(buf, n) ==
    IF n <= 0 \/ buf = << >> THEN << >>
    ELSE LET h == Head(buf)
             k == IF h.lit THEN 1 ELSE BufLen(h.data)
         IN  IF n >= k THEN << h >> \o TakeBytes(Tail(buf), n - k)
             ELSE << [h EXCEPT !.data = Subarray(h.data, 0, n)] >>

SubarrayBytes(buf, start, end) == TakeBytes(Seek(buf, start), end - start)

\* The bytes of a run that begins at offset, as a Buffer.
PayloadAt(buf, start, end) ==
    LET s == SubarrayBytes(buf, start, end)
    IN  IF s = << >> THEN << >> ELSE s[1].data

encodeFrame(type, payload) ==
    LET length == BufLen(payload)
    IN  Lit(<< type, (length \div 65536) % 256, (length \div 256) % 256, length % 256 >>)
            \o Run(payload)

\* Mutant of ParseFramesLoop: a frame that ends where the buffer ends is taken
\* as incomplete.
RECURSIVE ParseFramesLoop_EndIsIncomplete(_, _, _)
ParseFramesLoop_EndIsIncomplete(buffer, offset, frames) ==
    IF offset + FrameHeaderSize <= ByteLength(buffer)
    THEN LET type == ByteAt(buffer, offset)
             length == ByteAt(buffer, offset + 1) * 65536
                       + ByteAt(buffer, offset + 2) * 256 + ByteAt(buffer, offset + 3)
         IN  IF offset + FrameHeaderSize + length >= ByteLength(buffer)
             THEN [frames |-> frames,
                   remainder |-> SubarrayBytes(buffer, offset, ByteLength(buffer))]
             ELSE ParseFramesLoop_EndIsIncomplete(buffer, offset + FrameHeaderSize + length,
                      Append(frames,
                             [type |-> type,
                              payload |-> PayloadAt(buffer, offset + FrameHeaderSize,
                                                    offset + FrameHeaderSize + length)]))
    ELSE [frames |-> frames, remainder |-> SubarrayBytes(buffer, offset, ByteLength(buffer))]

\* The while loop of parseFrames from offset on, and what is returned after it.
RECURSIVE ParseFramesLoop(_, _, _)
ParseFramesLoop(buffer, offset, frames) ==
    IF offset + FrameHeaderSize <= ByteLength(buffer)
    THEN LET type == ByteAt(buffer, offset)
             length == ByteAt(buffer, offset + 1) * 65536
                       + ByteAt(buffer, offset + 2) * 256 + ByteAt(buffer, offset + 3)
         IN  IF offset + FrameHeaderSize + length > ByteLength(buffer)
             THEN [frames |-> frames,
                   remainder |-> SubarrayBytes(buffer, offset, ByteLength(buffer))]
             ELSE ParseFramesLoop(buffer, offset + FrameHeaderSize + length,
                      Append(frames,
                             [type |-> type,
                              payload |-> PayloadAt(buffer, offset + FrameHeaderSize,
                                                    offset + FrameHeaderSize + length)]))
    ELSE [frames |-> frames, remainder |-> SubarrayBytes(buffer, offset, ByteLength(buffer))]

parseFrames(buffer) == ParseFramesLoop(buffer, 0, << >>)

(***************************************************************************)
(* util/data-stream.ts                                                     *)
(*                                                                         *)
(* The 32-byte header is modelled byte by byte.  A frame is the record of   *)
(* its header bytes and, when it has one, its plist payload; the plist is   *)
(* the library's container, kept as the value it holds and its length.      *)
(* The data buffer inside it is the varint bytes followed by the symbolic   *)
(* protobuf bytes.  A 64-bit number is four 16-bit limbs, high limb first.  *)
(***************************************************************************)
HEADER_SIZE == 32

\* Buffer.from('sync\0\0\0\0\0\0\0\0'), Buffer.from('rply\0...'), Buffer.from('comm')
MESSAGE_TYPE == << 115, 121, 110, 99, 0, 0, 0, 0, 0, 0, 0, 0 >>
REPLY_TYPE == << 114, 112, 108, 121, 0, 0, 0, 0, 0, 0, 0, 0 >>
COMMAND == << 99, 111, 109, 109 >>

\* Buffer.alloc(n)
Alloc(n) == [i \in 1..n |-> 0]

\* One value of the random module constant, 0x100000000 + floor(random * 0xFFFFFFFF).
globalSeqno == << 0, 1, 4660, 22136 >>

\* Math.floor(Math.random() * 0xFFFFFFFF) as two 16-bit limbs: the least value,
\* one in the middle and the greatest (0xFFFFFFFE, random() being below 1).
RandomDraws == { << 0, 0 >>, << 4660, 22136 >>, << 65535, 65534 >> }

\* BigInt(0x100000000) + BigInt(draw): the draw is below 2^32, so no carry.
SeqnoOf(draw) == << 0, 1, draw[1], draw[2] >>

writeUInt32BE(value) ==
    << (value \div 16777216) % 256, (value \div 65536) % 256,
       (value \div 256) % 256, value % 256 >>

readUInt32BE(bytes, offset) ==
    bytes[offset + 1] * 16777216 + bytes[offset + 2] * 65536
        + bytes[offset + 3] * 256 + bytes[offset + 4]

writeBigUInt64BE(value) ==
    << value[1] \div 256, value[1] % 256, value[2] \div 256, value[2] % 256,
       value[3] \div 256, value[3] % 256, value[4] \div 256, value[4] % 256 >>

readBigUInt64BE(bytes, offset) ==
    << bytes[offset + 1] * 256 + bytes[offset + 2],
       bytes[offset + 3] * 256 + bytes[offset + 4],
       bytes[offset + 5] * 256 + bytes[offset + 6],
       bytes[offset + 7] * 256 + bytes[offset + 8] >>

\* encodeVarint(value): 7 bits a byte, low bits first, 0x80 on all but the last.
RECURSIVE encodeVarint(_)
encodeVarint(value) ==
    IF value > 127
    THEN << (value % 128) + 128 >> \o encodeVarint(value \div 128)
    ELSE << value % 128 >>

\* decodeVarint(buf, 0) over the literal bytes at the start of buf.
RECURSIVE DecodeVarintLoop(_, _, _, _)
DecodeVarintLoop(bytes, value, shift, bytesRead) ==
    IF bytesRead < Len(bytes)
    THEN LET byte == bytes[bytesRead + 1]
             v == value + (byte % 128) * (2 ^ shift)
         IN  IF byte < 128
             THEN [value |-> v, bytesRead |-> bytesRead + 1]
             ELSE DecodeVarintLoop(bytes, v, shift + 7, bytesRead + 1)
    ELSE [value |-> value, bytesRead |-> bytesRead]

decodeVarint(bytes) == DecodeVarintLoop(bytes, 0, 0, 0)

\* Buffer.concat([varintPrefix, protobufData]) and its length.
PrefixedData(varintPrefix, protobufData) == [bytes |-> varintPrefix, rest |-> protobufData]

DataLength(data) == Len(data.bytes) + BufLen(data.rest)

\* data.subarray(start, end) for start at or after the literal bytes.
DataSubarray(data, start, end) ==
    Subarray(data.rest, start - Len(data.bytes), Min(end, DataLength(data)) - Len(data.bytes))

\* bplistCreator(value): the encoded plist.
bplistCreator(value) ==
    [value |-> value,
     length |-> BplistOverhead
                + (IF value.params.data = << >> THEN 0 ELSE DataLength(value.params.data[1]))]

\* A frame as a buffer: Buffer.concat([header, plistPayload]), plistPayload
\* being << >> for a header-only frame.
FrameLength(frame) ==
    Len(frame.header) + (IF frame.plist = << >> THEN 0 ELSE frame.plist[1].length)

\* Mutant of buildDataStreamFrame: the varint prefix is left out.
buildDataStreamFrame_NoPrefix(protobufData) ==
    LET plistPayload ==
            bplistCreator([params |-> [data |-> << PrefixedData(<< >>, protobufData) >>]])
        totalSize == HEADER_SIZE + plistPayload.length
    IN  [header |-> writeUInt32BE(totalSize) \o MESSAGE_TYPE \o COMMAND
                    \o writeBigUInt64BE(globalSeqno) \o Alloc(4),
         plist |-> << plistPayload >>]

\* A builder that numbers frames by what they carry.
buildDataStreamFrame_SeqnoPerFrame(protobufData) ==
    LET plistPayload ==
            bplistCreator([params |-> [data |-> << PrefixedData(encodeVarint(BufLen(protobufData)), protobufData) >>]])
        totalSize == HEADER_SIZE + plistPayload.length
        seqno == << globalSeqno[1], globalSeqno[2], globalSeqno[3],
                    (globalSeqno[4] + BufLen(protobufData)) % 65536 >>
    IN  [header |-> writeUInt32BE(totalSize) \o MESSAGE_TYPE \o COMMAND
                    \o writeBigUInt64BE(seqno) \o Alloc(4),
         plist |-> << plistPayload >>]

buildDataStreamFrame(protobufData) ==
    LET varintPrefix == encodeVarint(BufLen(protobufData))
        prefixedData == PrefixedData(varintPrefix, protobufData)
        plistPayload == bplistCreator([params |-> [data |-> << prefixedData >>]])
        totalSize == HEADER_SIZE + plistPayload.length
    IN  [header |-> writeUInt32BE(totalSize) \o MESSAGE_TYPE \o COMMAND
                    \o writeBigUInt64BE(globalSeqno) \o Alloc(4),
         plist |-> << plistPayload >>]

\* parseDataStreamFrame(buf, 0): ok is FALSE for null; protobufData is << >>
\* for null and << buffer >> otherwise.
parseDataStreamFrame(buf) ==
    LET null == [ok |-> FALSE, messageType |-> "sync", protobufData |-> << >>,
                 seqno |-> << 0, 0, 0, 0 >>, totalSize |-> 0]
    IN  IF FrameLength(buf) < HEADER_SIZE THEN null
        ELSE LET totalSize == readUInt32BE(buf.header, 0)
                 messageType == IF SubSeq(buf.header, 5, 8) = SubSeq(REPLY_TYPE, 1, 4)
                                THEN "rply" ELSE "sync"
                 seqno == readBigUInt64BE(buf.header, 20)
                 noData == [ok |-> TRUE, messageType |-> messageType,
                            protobufData |-> << >>, seqno |-> seqno,
                            totalSize |-> totalSize]
             IN  IF FrameLength(buf) < totalSize THEN null
                 ELSE IF totalSize <= HEADER_SIZE THEN noData
                 ELSE IF buf.plist = << >> THEN noData
                 ELSE IF buf.plist[1].value.params.data = << >> THEN noData
                 ELSE LET data == buf.plist[1].value.params.data[1]
                          varint == decodeVarint(data.bytes)
                      IN  [noData EXCEPT !.protobufData =
                               << DataSubarray(data, varint.bytesRead,
                                               varint.bytesRead + varint.value) >>]

\* Mutant of buildDataStreamReply: the sequence number is left zero.
buildDataStreamReply_ZeroSeqno(seqno) ==
    writeUInt32BE(HEADER_SIZE) \o REPLY_TYPE \o Alloc(4) \o Alloc(8) \o Alloc(4)

\* buildDataStreamReply(seqno): the 32 header bytes.
buildDataStreamReply(seqno) ==
    writeUInt32BE(HEADER_SIZE) \o REPLY_TYPE \o Alloc(4) \o writeBigUInt64BE(seqno)
        \o Alloc(4)

(***************************************************************************)
(* connection.ts (AirPlayConnection)                                       *)
(***************************************************************************)
MessageTypes == {SetState, DeviceInfo}

\* The timeouts callers pass to waitForMRPMessage: the default, and the one of
\* AppleTV.requestPlaybackQueue.
TimeoutsMs == {DefaultTimeoutMs, PlaybackQueueTimeoutMs}

Steps == {"m2", "m4", "setupEvent", "eventSocket", "record", "setupData",
          "dataSocket", "deviceInfo"}

InitAirPlay ==
    /\ airConnect = "idle"
    /\ socket = "undefined"
    /\ eventSocket = "undefined"
    /\ dataSocket = "undefined"
    /\ session = << >>
    /\ eventSession = << >>
    /\ dataSession = << >>
    /\ dataOut = << >>
    /\ cseq = 0
    /\ feedbackInterval = FALSE
    /\ feedbacks = 0
    /\ rtspListeners = {}
    /\ rtspRequests = << >>
    /\ pendingMRPResolvers = << >>
    /\ waits = << >>
    /\ mrpTimers = {}
    /\ now = 0
    /\ exchanges = [s \in Steps |-> "none"]
    /\ dataPeer = NewHAPSession("DataStream-Input", "DataStream-Output")
    /\ dataFrames = 0
    /\ dataDecryptFailures = 0
    /\ mrpDelivered = [total |-> 0, afterFailure |-> 0]
    /\ lastData = [decrypted |-> FALSE, header |-> << >>, payload |-> << >>,
                   written |-> << >>, frames |-> 0]
    /\ arrived = << >>
    /\ observers = [mrpMessage |-> << >>, message |-> << >>]
    /\ lastMRP = [handled |-> FALSE, type |-> 0, before |-> << >>, waitsBefore |-> << >>,
                  after |-> << >>, waitsAfter |-> << >>]

\* parseHTTPMessage(buf): the header lines after the first and the body; the
\* status line is not looked at.
parseHTTPMessage(response) == [body |-> response.body]

\* The receiver's answers to an RTSP request: a status, and a body that is a
\* plist naming a port, or empty.
RtspReplies(request) ==
    LET plain == { [to |-> request, status |-> 200, body |-> "empty"],
                   [to |-> request, status |-> 500, body |-> "empty"] }
    IN  IF request \in {"setupEvent", "setupData"}
        THEN plain \cup { [to |-> request, status |-> 200, body |-> "port"] }
        ELSE plain

RtspRequests == {"setupEvent", "record", "setupData", "feedback"}

AllRtspReplies == UNION { RtspReplies(request) : request \in RtspRequests }

\* Mutant of AirPlayM2Accepted: the server's signature is not verified.
AirPlayM2Accepted_NoSignatureCheck(m2) ==
    /\ m2.PublicKey # << >> /\ m2.EncryptedData # "absent"
    /\ m2.EncryptedData = "sealed"
    /\ m2.Identifier # << >> /\ m2.Signature # << >>

\* pairVerifyOnSocket from the M2 TLV to the point where M3 is sent: TRUE when
\* no check throws.
AirPlayM2Accepted(m2) ==
    /\ m2.PublicKey # << >> /\ m2.EncryptedData # "absent"
    /\ m2.EncryptedData = "sealed"
    /\ m2.Identifier # << >> /\ m2.Signature # << >>
    /\ cryptoVerify(m2.PublicKey \o m2.Identifier \o << ephemeralPublicKeyRaw >>,
                    credentials.serverLTPK, m2.Signature[1])

\* pairVerifyOnSocket's check of M4.
AirPlayM4Accepted(error) == ~(error # << >> /\ error[1] # 0)

\* this.session.encrypt(data) inside sendRTSP, when the session exists.
EncryptRTSP(s, id) ==
    IF s = << >> THEN s ELSE << HAPEncrypt(s[1], BufferFrom(id, 256)).session >>

\* connect(): connectSocket(host, port) starts.
AirConnectCall ==
    /\ airConnect = "idle"
    /\ airConnect' = "tcp"
    /\ UNCHANGED << airSockets, airSessions, airRtsp, feedbackInterval, feedbacks,
                    airMrp, now, exchanges, airData >>
    /\ UNCHANGED << sessionVars, companionVars, codecVars, pairVars, streamVars, hbVars, keyVars, loopVars >>

\* The control socket connects: the handlers are attached and pair-verify posts
\* M1 (httpPostOnSocket sets pendingRawResponse).
AirSocketConnected ==
    /\ airConnect = "tcp"
    /\ socket' = "connected"
    /\ airConnect' = "m2"
    /\ UNCHANGED << eventSocket, dataSocket, airSessions, airRtsp, feedbackInterval,
                    feedbacks, airMrp, now, exchanges, airData >>
    /\ UNCHANGED << sessionVars, companionVars, codecVars, pairVars, streamVars, hbVars, keyVars, loopVars >>

\* connectSocket rejects: connect() rejects, this.socket was never assigned.
AirSocketError ==
    /\ airConnect = "tcp"
    /\ airConnect' = "rejected"
    /\ UNCHANGED << airSockets, airSessions, airRtsp, feedbackInterval, feedbacks,
                    airMrp, now, exchanges, airData >>
    /\ UNCHANGED << sessionVars, companionVars, codecVars, pairVars, streamVars, hbVars, keyVars, loopVars >>

\* onRawData with the reply to M1: a check of pairVerifyOnSocket throws and
\* connect() rejects, or M3 is posted.
AirReceiveM2(m2) ==
    /\ airConnect = "m2"
    /\ socket = "connected"
    /\ airConnect' = IF AirPlayM2Accepted(m2) THEN "m4" ELSE "rejected"
    /\ exchanges' = [exchanges EXCEPT !["m2"] =
                         IF AirPlayM2Accepted(m2) /\ m2.Error = << >>
                         THEN "ok" ELSE "failed"]
    /\ UNCHANGED << airSockets, airSessions, airRtsp, feedbackInterval, feedbacks,
                    airMrp, now, airData >>
    /\ UNCHANGED << sessionVars, companionVars, codecVars, pairing, streamVars, hbVars, keyVars, loopVars >>
    /\ verifyLog' = [verifyLog EXCEPT !.air.m2 = << m2 >>,
                                      !.air.m3 = AirPlayM2Accepted(m2)]

\* sendRTSP(method, uri, headers, body) by caller, s being this.session: the
\* next CSeq, the request encrypted, then written and the
\* once('rtsp-response') listener registered; on an undefined socket the
\* write throws and the listener is not registered.
SendRTSP(s, caller, request, listeners, outstanding) ==
    /\ cseq' = cseq + 1
    /\ session' = EncryptRTSP(s, cseq + 1)
    /\ rtspListeners' = IF socket = "undefined" THEN listeners ELSE listeners \cup {caller}
    /\ rtspRequests' = IF socket = "undefined" THEN outstanding
                       ELSE Append(outstanding, request)

\* sendRTSP when the socket hands an error to the callback of write: the
\* request does not reach the receiver and the promise is rejected, with the
\* once('rtsp-response') listener registered all the same.
SendRTSPWriteError(s, caller, listeners) ==
    /\ cseq' = cseq + 1
    /\ session' = EncryptRTSP(s, cseq + 1)
    /\ rtspListeners' = listeners \cup {caller}
    /\ UNCHANGED rtspRequests

\* onRawData with the reply to M3: a non-zero Error rejects connect();
\* otherwise the control keys are derived, the session installed, the socket
\* switched to onEncryptedData and SETUP of the event channel sent.
AirReceiveM4(error) ==
    /\ airConnect = "m4"
    /\ socket = "connected"
    /\ exchanges' = [exchanges EXCEPT !["m4"] =
                         IF AirPlayM4Accepted(error) THEN "ok" ELSE "failed"]
    /\ IF AirPlayM4Accepted(error)
       THEN /\ airConnect' = "setupEvent"
            /\ SendRTSP(<< NewHAPSession("Control-Write", "Control-Read") >>,
                        "connect", "setupEvent", rtspListeners, rtspRequests)
       ELSE /\ airConnect' = "rejected"
            /\ UNCHANGED << session, airRtsp >>
    /\ UNCHANGED << airSockets, eventSession, dataSession, dataOut,
                    feedbackInterval, feedbacks,
                    airMrp, now, airData >>
    /\ UNCHANGED << sessionVars, companionVars, codecVars, pairing, streamVars, hbVars, keyVars, loopVars >>
    /\ verifyLog' = [verifyLog EXCEPT !.air.m4 = << ErrorValue(error) >>,
                                      !.air.keys = AirPlayM4Accepted(error)]

\* Whether the response that resolved a step of connect() is a success reply
\* to that step's own request.
RtspSucceeded(resp, step) ==
    /\ resp.to = step
    /\ resp.status = 200
    /\ step = "setupEvent" => resp.body = "port"

\* onEncryptedData with the receiver's reply to its oldest unanswered request:
\* tryParseRTSPResponse emits 'rtsp-response', which resolves every sendRTSP
\* that is waiting.  When connect() is among them it goes on with that
\* response: after SETUP (event) to the event socket if the body names an
\* event port and straight to RECORD if not; after RECORD to the heartbeat and
\* SETUP (data); after SETUP (data) to the data socket.
RtspResponse(resp) ==
    /\ socket = "connected"
    /\ session # << >>
    /\ rtspRequests # << >>
    /\ resp \in RtspReplies(Head(rtspRequests))
    /\ LET body == parseHTTPMessage(resp).body
       IN  IF "connect" \notin rtspListeners
           THEN /\ rtspListeners' = {}
                /\ rtspRequests' = Tail(rtspRequests)
                /\ UNCHANGED << airConnect, session, eventSession, dataSession, cseq,
                                feedbackInterval, exchanges >>
           ELSE /\ exchanges' = [exchanges EXCEPT ![airConnect] =
                                     IF RtspSucceeded(resp, airConnect)
                                     THEN "ok" ELSE "failed"]
                /\ CASE airConnect = "setupEvent" /\ body = "port" ->
                            /\ eventSession' =
                                   << NewHAPSession("Events-Read", "Events-Write") >>
                            /\ airConnect' = "eventSocket"
                            /\ rtspListeners' = {}
                            /\ rtspRequests' = Tail(rtspRequests)
                            /\ UNCHANGED << session, dataSession, cseq, feedbackInterval >>
                     [] airConnect = "setupEvent" /\ body # "port" ->
                            /\ airConnect' = "record"
                            /\ SendRTSP(session, "connect", "record", {},
                                        Tail(rtspRequests))
                            /\ UNCHANGED << eventSession, dataSession, feedbackInterval >>
                     [] airConnect = "record" ->
                            /\ feedbackInterval' = TRUE
                            /\ airConnect' = "setupData"
                            /\ SendRTSP(session, "connect", "setupData", {},
                                        Tail(rtspRequests))
                            /\ UNCHANGED << eventSession, dataSession >>
                     [] airConnect = "setupData" ->
                            /\ dataSession' = << NewHAPSession("DataStream-Output",
                                                               "DataStream-Input") >>
                            /\ airConnect' = "dataSocket"
                            /\ rtspListeners' = {}
                            /\ rtspRequests' = Tail(rtspRequests)
                            /\ UNCHANGED << session, eventSession, cseq, feedbackInterval >>
    /\ UNCHANGED << airSockets, dataOut, feedbacks, airMrp, now, airData >>
    /\ UNCHANGED << sessionVars, companionVars, codecVars, pairVars, streamVars, hbVars, keyVars, loopVars >>

\* connectSocket(host, eventPort) resolves: the socket is kept, its handlers
\* attached, and connect() sends RECORD.
AirEventSocketConnected ==
    /\ airConnect = "eventSocket"
    /\ eventSocket' = "connected"
    /\ exchanges' = [exchanges EXCEPT !["eventSocket"] = "ok"]
    /\ airConnect' = IF socket = "undefined" THEN "rejected" ELSE "record"
    /\ SendRTSP(session, "connect", "record", rtspListeners, rtspRequests)
    /\ UNCHANGED << socket, dataSocket, eventSession, dataSession, dataOut,
                    feedbackInterval,
                    feedbacks, airMrp, now, airData >>
    /\ UNCHANGED << sessionVars, companionVars, codecVars, pairVars, streamVars, hbVars, keyVars, loopVars >>

\* connectSocket(host, eventPort) rejects, and connect() with it.
AirEventSocketError ==
    /\ airConnect = "eventSocket"
    /\ airConnect' = "rejected"
    /\ exchanges' = [exchanges EXCEPT !["eventSocket"] = "failed"]
    /\ UNCHANGED << airSockets, airSessions, airRtsp, feedbackInterval, feedbacks,
                    airMrp, now, airData >>
    /\ UNCHANGED << sessionVars, companionVars, codecVars, pairVars, streamVars, hbVars, keyVars, loopVars >>

\* The FEEDBACK interval fires: sendRTSP('POST', '/feedback').
FeedbackSend ==
    /\ feedbackInterval
    /\ feedbacks' = feedbacks + 1
    /\ SendRTSP(session, "feedback", "feedback", rtspListeners, rtspRequests)
    /\ UNCHANGED << airConnect, airSockets, eventSession, dataSession, dataOut,
                    feedbackInterval,
                    airMrp, now, exchanges, airData >>

FeedbackTick ==
    /\ feedbacks < MaxFeedbacks
    /\ FeedbackSend
    /\ UNCHANGED << sessionVars, companionVars, codecVars, pairVars, streamVars, hbVars, keyVars, loopVars >>

\* The protobuf bytes of an MRP message of the given type, and
\* MRPMessage.decode of them: the bytes that no message encodes to make decode
\* throw, and no bytes are a message with no field set.
ProtobufOf(type) == BufferFrom(type, 20)

Undecodable == BufferFrom(0, 20)

MRPDecode(protobufData) ==
    IF protobufData = << >> THEN [ok |-> TRUE, type |-> 0]
    ELSE IF protobufData[1].id \in MessageTypes
    THEN [ok |-> TRUE, type |-> protobufData[1].id]
    ELSE [ok |-> FALSE, type |-> 0]

\* A frame as the bytes written: the framing around the payload, and the
\* payload as it was given.
FrameBytes(frame) ==
    LET payload == IF frame.plist = << >> THEN << >>
                   ELSE frame.plist[1].value.params.data[1].rest
    IN  << [id |-> -1, off |-> 0, len |-> FrameLength(frame) - BufLen(payload)] >>
            \o payload

\* Mutant of sendMRPMessage: the message is sealed before it is framed.
sendMRPMessage_InnerCipher(s, protobufData) ==
    LET sealed == BufferFrom(protobufData[1].id + 1000, BufLen(protobufData) + 16)
        frame == buildDataStreamFrame(sealed)
        encrypted == HAPEncrypt(s[1], FrameBytes(frame))
    IN  [session |-> << encrypted.session >>, written |-> encrypted.frames]

\* sendMRPMessage(protobufData) on a connected data channel: the message is
\* framed, the frame encrypted by the data session and written.
sendMRPMessage(s, protobufData) ==
    LET frame == buildDataStreamFrame(protobufData)
        encrypted == HAPEncrypt(s[1], FrameBytes(frame))
    IN  [session |-> << encrypted.session >>, written |-> encrypted.frames]

\* The messages of the given types written one after the other.
RECURSIVE SendMRPMessages(_, _, _)
SendMRPMessages(s, types, out) ==
    IF types = << >> THEN [session |-> s, out |-> out]
    ELSE LET r == sendMRPMessage(s, ProtobufOf(Head(types)))
         IN  SendMRPMessages(r.session, Tail(types),
                             Append(out, [type |-> Head(types), written |-> r.written]))

\* Mutant of AirDataSocketConnected: the four messages of initMRPProtocol are
\* written at once, the receiver's DeviceInfo not being waited for.
AirDataSocketConnected_NoWait ==
    /\ airConnect = "dataSocket"
    /\ dataSocket' = "connected"
    /\ exchanges' = [exchanges EXCEPT !["dataSocket"] = "ok"]
    /\ LET r == SendMRPMessages(dataSession, << DeviceInfo, SetConnectionState,
                                 ClientUpdatesConfig, GetKeyboardSession >>, dataOut)
       IN  dataSession' = r.session /\ dataOut' = r.out
    /\ airConnect' = "deviceInfoWrite"
    /\ UNCHANGED << socket, eventSocket, session, eventSession, airRtsp,
                    feedbackInterval, feedbacks, airMrp, now, airData >>
    /\ UNCHANGED << sessionVars, companionVars, codecVars, pairVars, streamVars, hbVars, keyVars, loopVars >>

\* connectSocket(host, dataPort) resolves: the socket is kept, its handlers
\* attached, and initMRPProtocol writes DeviceInfo.
AirDataSocketConnected ==
    /\ airConnect = "dataSocket"
    /\ dataSocket' = "connected"
    /\ exchanges' = [exchanges EXCEPT !["dataSocket"] = "ok"]
    /\ LET r == SendMRPMessages(dataSession, << DeviceInfo >>, dataOut)
       IN  dataSession' = r.session /\ dataOut' = r.out
    /\ airConnect' = "deviceInfoWrite"
    /\ UNCHANGED << socket, eventSocket, session, eventSession, airRtsp,
                    feedbackInterval, feedbacks, airMrp, now, airData >>
    /\ UNCHANGED << sessionVars, companionVars, codecVars, pairVars, streamVars, hbVars, keyVars, loopVars >>

\* connectSocket(host, dataPort) rejects, and connect() with it.
AirDataSocketError ==
    /\ airConnect = "dataSocket"
    /\ airConnect' = "rejected"
    /\ exchanges' = [exchanges EXCEPT !["dataSocket"] = "failed"]
    /\ UNCHANGED << airSockets, airSessions, airRtsp, feedbackInterval, feedbacks,
                    airMrp, now, airData >>
    /\ UNCHANGED << sessionVars, companionVars, codecVars, pairVars, streamVars, hbVars, keyVars, loopVars >>

\* waitForMRPMessage(type, timeoutMs): the timer is armed and the entry pushed.
WaitForMRPMessage(type, timeoutMs, init) ==
    LET id == Len(waits) + 1
    IN  /\ waits' = Append(waits, [type |-> type, deadline |-> now + timeoutMs,
                                   init |-> init, status |-> "pending", settles |-> 0])
        /\ pendingMRPResolvers' = Append(pendingMRPResolvers, [type |-> type, id |-> id])
        /\ mrpTimers' = mrpTimers \cup {id}

\* The write of DeviceInfo completes: initMRPProtocol waits for the receiver's
\* DeviceInfo, 5000 ms at most.
AirDeviceInfoWritten ==
    /\ airConnect = "deviceInfoWrite"
    /\ dataSocket = "connected"
    /\ WaitForMRPMessage(DeviceInfo, DefaultTimeoutMs, TRUE)
    /\ airConnect' = "deviceInfoWait"
    /\ UNCHANGED << airSockets, airSessions, airRtsp, feedbackInterval, feedbacks,
                    lastMRP, now, exchanges, airData >>
    /\ UNCHANGED << sessionVars, companionVars, codecVars, pairVars, streamVars, hbVars, keyVars, loopVars >>

\* The write of DeviceInfo fails: sendMRPMessage rejects, and connect() with it.
AirDeviceInfoWriteError ==
    /\ airConnect = "deviceInfoWrite"
    /\ airConnect' = "rejected"
    /\ exchanges' = [exchanges EXCEPT !["deviceInfo"] = "failed"]
    /\ UNCHANGED << airSockets, airSessions, airRtsp, feedbackInterval, feedbacks,
                    airMrp, now, airData >>
    /\ UNCHANGED << sessionVars, companionVars, codecVars, pairVars, streamVars, hbVars, keyVars, loopVars >>

\* findIndex((r) => r.type === type) of the timer callback.
FirstOfType(resolvers, type) ==
    IF \E i \in 1..Len(resolvers) : resolvers[i].type = type
    THEN CHOOSE i \in 1..Len(resolvers) :
             /\ resolvers[i].type = type
             /\ \A j \in 1..(i - 1) : resolvers[j].type # type
    ELSE 0

\* Whether an entry matches a message: no filter, or the message's type.
Matches(r, type) == r.type = NoFilter \/ r.type = type

\* findIndex((r) => r.type === undefined || r.type === msg.type) of
\* handleMRPResponse.
FirstMatching(resolvers, type) ==
    IF \E i \in 1..Len(resolvers) : Matches(resolvers[i], type)
    THEN CHOOSE i \in 1..Len(resolvers) :
             /\ Matches(resolvers[i], type)
             /\ \A j \in 1..(i - 1) : ~Matches(resolvers[j], type)
    ELSE 0

\* sendMRPMessageAndWait(protobufData, responseType, timeoutMs) by a caller of
\* a connection whose connect() has resolved: the wait is registered, then sendMRPMessage throws when the data channel is not there
\* and writes one encrypted frame when it is.
SendMRPMessageAndWait(responseType, timeoutMs) ==
    /\ airConnect = "resolved"
    /\ Cardinality({i \in 1..Len(waits) : ~waits[i].init}) < MaxWaits
    /\ WaitForMRPMessage(responseType, timeoutMs, FALSE)
    /\ IF dataSocket = "undefined" \/ dataSession = << >>
       THEN UNCHANGED << dataSession, dataOut >>
       ELSE LET r == SendMRPMessages(dataSession, << PlaybackQueueRequest >>, dataOut)
            IN  dataSession' = r.session /\ dataOut' = r.out
    /\ UNCHANGED << airConnect, airSockets, session, eventSession, airRtsp,
                    feedbackInterval, feedbacks, lastMRP, now, exchanges, airData >>
    /\ UNCHANGED << sessionVars, companionVars, codecVars, pairVars, streamVars, hbVars, keyVars, loopVars >>

\* The timers fire in the order of their deadlines.
Due(id) ==
    /\ id \in mrpTimers
    /\ waits[id].deadline <= now
    /\ \A other \in mrpTimers :
           \/ waits[other].deadline > waits[id].deadline
           \/ waits[other].deadline = waits[id].deadline /\ other >= id

\* The timer of waitForMRPMessage fires: the first entry with the wait's type
\* is spliced out and the wait rejects; connect() rejects when it was waiting
\* on it.
MRPTimeout(id) ==
    /\ Due(id)
    /\ LET idx == FirstOfType(pendingMRPResolvers, waits[id].type)
       IN  pendingMRPResolvers' = IF idx > 0 THEN Splice(pendingMRPResolvers, idx)
                                  ELSE pendingMRPResolvers
    /\ waits' = [waits EXCEPT ![id] = Settle(@, "rejected")]
    /\ mrpTimers' = mrpTimers \ {id}
    /\ airConnect' = IF waits[id].init /\ airConnect = "deviceInfoWait"
                     THEN "rejected" ELSE airConnect
    /\ exchanges' = IF waits[id].init /\ airConnect = "deviceInfoWait"
                    THEN [exchanges EXCEPT !["deviceInfo"] = "failed"] ELSE exchanges
    /\ UNCHANGED << airSockets, airSessions, airRtsp, feedbackInterval, feedbacks,
                    lastMRP, now, airData >>
    /\ UNCHANGED << sessionVars, companionVars, codecVars, pairVars, streamVars, hbVars, keyVars, loopVars >>

\* Time passes while a timer is armed, up to the next instant one can be due
\* at; a due timer fires first.
Tick ==
    /\ now < MaxTicks * DefaultTimeoutMs
    /\ mrpTimers # {}
    /\ \A id \in mrpTimers : waits[id].deadline > now
    /\ now' = now + DefaultTimeoutMs
    /\ UNCHANGED << airConnect, airSockets, airSessions, airRtsp, feedbackInterval,
                    feedbacks, airMrp, exchanges, airData >>
    /\ UNCHANGED << sessionVars, companionVars, codecVars, pairVars, streamVars, hbVars, keyVars, loopVars >>

\* AppleTV.handleMRPMessage(msg), the listener AppleTV.connect registers for
\* 'mrp-message': the message is wrapped and 'message' emitted with it.
handleMRPMessage(messages, type) == Append(messages, type)

\* Mutant of HandleMRPResponse: a message a waiter takes is not emitted.
HandleMRPResponse_WaiterHidesMessage(type) ==
    LET idx == FirstMatching(pendingMRPResolvers, type)
        id == pendingMRPResolvers[idx].id
        resumes == idx > 0 /\ waits[id].init /\ waits[id].status = "pending"
                   /\ airConnect = "deviceInfoWait"
    IN  /\ mrpDelivered' =
               [total |-> mrpDelivered.total + 1,
                afterFailure |-> mrpDelivered.afterFailure
                                 + (IF dataDecryptFailures > 0 THEN 1 ELSE 0)]
        /\ observers' = IF idx > 0 THEN observers
                        ELSE [mrpMessage |-> Append(observers.mrpMessage, type),
                              message |-> handleMRPMessage(observers.message, type)]
        /\ IF idx > 0
           THEN /\ pendingMRPResolvers' = Splice(pendingMRPResolvers, idx)
                /\ waits' = [waits EXCEPT ![id] = Settle(@, "resolved")]
                /\ mrpTimers' = mrpTimers \ {id}
           ELSE UNCHANGED << pendingMRPResolvers, waits, mrpTimers >>
        /\ lastMRP' = [handled |-> TRUE, type |-> type,
                       before |-> pendingMRPResolvers, waitsBefore |-> waits,
                       after |-> pendingMRPResolvers', waitsAfter |-> waits']
        /\ airConnect' = IF resumes THEN "initRest" ELSE airConnect
        /\ exchanges' = IF resumes THEN [exchanges EXCEPT !["deviceInfo"] = "ok"]
                        ELSE exchanges

\* handleMRPResponse(protobufData) once decode has returned a message of the
\* given type, its awaits being microtasks that run before any other callback:
\* 'mrp-message' is emitted, its listener emitting 'message' in turn, then the
\* first matching entry is spliced out and its resolve called, which clears the
\* wait's timer.  connect() goes on when it was waiting on that wait.
HandleMRPResponse(type) ==
    LET idx == FirstMatching(pendingMRPResolvers, type)
        id == pendingMRPResolvers[idx].id
        resumes == idx > 0 /\ waits[id].init /\ waits[id].status = "pending"
                   /\ airConnect = "deviceInfoWait"
    IN  /\ mrpDelivered' =
               [total |-> mrpDelivered.total + 1,
                afterFailure |-> mrpDelivered.afterFailure
                                 + (IF dataDecryptFailures > 0 THEN 1 ELSE 0)]
        /\ observers' = [mrpMessage |-> Append(observers.mrpMessage, type),
                         message |-> handleMRPMessage(observers.message, type)]
        /\ IF idx > 0
           THEN /\ pendingMRPResolvers' = Splice(pendingMRPResolvers, idx)
                /\ waits' = [waits EXCEPT ![id] = Settle(@, "resolved")]
                /\ mrpTimers' = mrpTimers \ {id}
           ELSE UNCHANGED << pendingMRPResolvers, waits, mrpTimers >>
        /\ lastMRP' = [handled |-> TRUE, type |-> type,
                       before |-> pendingMRPResolvers, waitsBefore |-> waits,
                       after |-> pendingMRPResolvers', waitsAfter |-> waits']
        /\ airConnect' = IF resumes THEN "initRest" ELSE airConnect
        /\ exchanges' = IF resumes THEN [exchanges EXCEPT !["deviceInfo"] = "ok"]
                        ELSE exchanges

\* A frame whose tag does not verify.
Corrupted(frame) == [frame EXCEPT !.tag = [@ EXCEPT !.key = "corrupted"]]

\* The frame the receiver builds around a payload, with its own sequence number.
PeerSync(protobufData, seqno) ==
    LET frame == buildDataStreamFrame(protobufData)
    IN  [frame EXCEPT !.header = SubSeq(@, 1, 20) \o writeBigUInt64BE(seqno)
                                     \o SubSeq(@, 29, 32)]

\* What the receiver sends on the data channel: a sync frame with a message,
\* one with bytes that do not decode, and the reply to a frame of this side.
\* A frame of type rply that carries a payload: the header of a reply with
\* the total size of the frame, and the plist of a message.
PeerReply(protobufData, seqno) ==
    LET frame == buildDataStreamFrame(protobufData)
    IN  [frame EXCEPT !.header = SubSeq(@, 1, 4)
                                     \o SubSeq(buildDataStreamReply(seqno), 5, 32)]

PeerFrames ==
    { PeerSync(ProtobufOf(SetState), << 0, 1, 0, 7 >>),
      PeerSync(ProtobufOf(DeviceInfo), << 0, 1, 65535, 65534 >>),
      PeerSync(Undecodable, << 43981, 0, 1, 255 >>),
      [header |-> buildDataStreamReply(globalSeqno), plist |-> << >>],
      PeerReply(ProtobufOf(SetState), globalSeqno) }

\* onDataChannelData with one HAP frame from the receiver, carrying a
\* DataStream frame, intact or with a tag that does not verify: a frame that
\* fails to decrypt is logged and the handler returns; a decrypted one is
\* parsed, a sync frame is answered with the encrypted reply, and the payload
\* if there is one is handed to handleMRPResponse, which does nothing more
\* when decode throws.
PeerDataFrame(frame, fault) ==
    /\ dataSocket = "connected"
    /\ dataFrames < MaxDataFrames
    /\ dataFrames' = dataFrames + 1
    /\ LET sealed == HAPEncrypt(dataPeer, BufferFrom(dataFrames + 1, FrameLength(frame)))
           arriving == IF fault = "tag"
                       THEN << Corrupted(sealed.frames[1]) >> ELSE sealed.frames
           r == HAPDecrypt(dataSession[1], arriving)
           parsed == parseDataStreamFrame(frame)
           replies == r.ok /\ parsed.ok /\ parsed.messageType = "sync"
           reply == buildDataStreamReply(parsed.seqno)
           encrypted == HAPEncrypt(r.session, BufferFrom(r.session.outCounter, Len(reply)))
           decoded == IF parsed.protobufData = << >> THEN [ok |-> FALSE, type |-> 0]
                      ELSE MRPDecode(parsed.protobufData[1])
       IN  /\ dataPeer' = sealed.session
           /\ dataSession' = IF replies THEN << encrypted.session >> ELSE << r.session >>
           /\ UNCHANGED dataOut
           /\ lastData' = [decrypted |-> r.ok,
                           header |-> IF r.ok THEN frame.header ELSE << >>,
                           payload |-> IF r.ok THEN parsed.protobufData ELSE << >>,
                           written |-> IF replies THEN << reply >> ELSE << >>,
                           frames |-> IF replies THEN Len(encrypted.frames) ELSE 0]
           /\ dataDecryptFailures' = dataDecryptFailures + (IF r.ok THEN 0 ELSE 1)
           /\ IF r.ok /\ parsed.ok /\ decoded.ok
              THEN /\ arrived' = Append(arrived, decoded.type)
                   /\ HandleMRPResponse(decoded.type)
              ELSE UNCHANGED << airConnect, airMrp, exchanges, mrpDelivered, arrived,
                                observers >>
    /\ UNCHANGED << airSockets, session, eventSession, airRtsp, feedbackInterval,
                    feedbacks, now >>
    /\ UNCHANGED << sessionVars, companionVars, codecVars, pairVars, streamVars, hbVars, keyVars, loopVars >>

\* initMRPProtocol after the DeviceInfo exchange: SetConnectionState,
\* ClientUpdatesConfig and GetKeyboardSession are written one after the other;
\* sendMRPMessage throws when the data socket is gone.
AirInitRest ==
    /\ airConnect = "initRest"
    /\ IF dataSocket = "undefined"
       THEN /\ airConnect' = "rejected"
            /\ UNCHANGED << dataSession, dataOut >>
       ELSE /\ airConnect' = "settle"
            /\ LET r == SendMRPMessages(dataSession, << SetConnectionState,
                                        ClientUpdatesConfig, GetKeyboardSession >>, dataOut)
               IN  dataSession' = r.session /\ dataOut' = r.out
    /\ UNCHANGED << airSockets, session, eventSession, airRtsp, feedbackInterval,
                    feedbacks, airMrp, now, exchanges, airData >>
    /\ UNCHANGED << sessionVars, companionVars, codecVars, pairVars, streamVars, hbVars, keyVars, loopVars >>

\* The 500 ms pause at the end of initMRPProtocol is over: connect() resolves.
AirSettled ==
    /\ airConnect = "settle"
    /\ airConnect' = "resolved"
    /\ UNCHANGED << airSockets, airSessions, airRtsp, feedbackInterval, feedbacks,
                    airMrp, now, exchanges, airData >>
    /\ UNCHANGED << sessionVars, companionVars, codecVars, pairVars, streamVars, hbVars, keyVars, loopVars >>

\* close(): the interval is cleared, the three sockets destroyed and forgotten.
CloseSockets ==
    /\ airConnect # "idle"
    /\ feedbackInterval' = FALSE
    /\ dataSocket' = "undefined"
    /\ eventSocket' = "undefined"
    /\ socket' = "undefined"
    /\ UNCHANGED << airConnect, airSessions, airRtsp, feedbacks, airMrp, now,
                    exchanges, airData >>

AirClose ==
    /\ CloseSockets
    /\ UNCHANGED << sessionVars, companionVars, codecVars, pairVars, streamVars, hbVars, keyVars, loopVars >>

NextAirPlay ==
    \/ AirConnectCall
    \/ AirSocketConnected
    \/ AirSocketError
    \/ \E m2 \in M2Replies : AirReceiveM2(m2)
    \/ \E error \in M4Replies : AirReceiveM4(error)
    \/ \E resp \in AllRtspReplies : RtspResponse(resp)
    \/ AirEventSocketConnected
    \/ AirEventSocketError
    \/ FeedbackTick
    \/ AirDataSocketConnected
    \/ AirDataSocketError
    \/ AirDeviceInfoWritten
    \/ AirDeviceInfoWriteError
    \/ \E timeoutMs \in TimeoutsMs : SendMRPMessageAndWait(SetState, timeoutMs)
    \/ \E id \in mrpTimers : MRPTimeout(id)
    \/ Tick
    \/ \E frame \in PeerFrames, fault \in {"none", "tag"} : PeerDataFrame(frame, fault)
    \/ AirInitRest
    \/ AirSettled
    \/ AirClose

(***************************************************************************)
(* Calls of the codecs.                                                    *)
(*                                                                         *)
(* A call takes its argument from a bounded set of values, and is followed  *)
(* by the decoder's call on what the encoder returned.                      *)
(***************************************************************************)
\* No codec is called in the other specifications.
InitCodec ==
    /\ codecFn = "none"
    /\ codecStage = "idle"
    /\ codecInput = << >>
    /\ codecEncoded = << >>
    /\ codecDecoded = << >>

\* Lengths of protobuf payloads: none, one-byte and longer varint prefixes.
PayloadLengths == { 0, 1, 20, 127, 128, 300, 16383, 16384, 2097151, 2097152 }

Payloads ==
    { BufferFrom(id, n) : id \in 1..2, n \in PayloadLengths }
        \cup { BufferFrom(1, n) \o BufferFrom(2, 200) : n \in PayloadLengths }

InitDataStreamCall ==
    /\ codecFn = "datastream"
    /\ codecStage = "input"
    /\ codecInput \in Payloads
    /\ codecEncoded = << >>
    /\ codecDecoded = << >>

\* Lengths of TLV values: empty, within one item, exact multiples of 255,
\* and 4 KB.
TlvLengths == { 0, 1, 255, 256, 510, 4096 }

\* TlvTag.PublicKey and TlvTag.SeqNo.
TlvPublicKey == 3

TlvSeqNo == 6

\* The object literal of the pair-verify M1: SeqNo is written first in the
\* source, with the one byte 0x01, then PublicKey with the 32 bytes of the
\* ephemeral key.  An object is a function of its keys.
PairVerifyM1 == (TlvSeqNo :> BufferFrom(1, 1)) @@ (TlvPublicKey :> BufferFrom(2, 32))

\* tlvEncode({ [TlvTag.PublicKey]: Buffer.alloc(300, 0xAA) }) of the unit test.
BigPublicKey == (TlvPublicKey :> BufferFrom(4, 300))

TlvMaps ==
    { (tag :> BufferFrom(tag + 1, n)) : tag \in { 0, 6, 255 }, n \in TlvLengths }
        \cup { (1 :> BufferFrom(2, n)) @@ (6 :> BufferFrom(7, k)) :
                    n \in TlvLengths, k \in TlvLengths }
        \cup { PairVerifyM1, BigPublicKey }

InitTlvCall ==
    /\ codecFn = "tlv"
    /\ codecStage = "input"
    /\ codecInput \in TlvMaps
    /\ codecEncoded = << >>
    /\ codecDecoded = << >>

\* tlvEncode(codecInput).
TlvEncode ==
    /\ codecFn = "tlv"
    /\ codecStage = "input"
    /\ codecEncoded' = tlvEncode(codecInput)
    /\ codecStage' = "encoded"
    /\ UNCHANGED << codecFn, codecInput, codecDecoded >>
    /\ UNCHANGED << sessionVars, companionVars, airVars, pairVars, streamVars, hbVars, keyVars, loopVars >>

\* tlvDecode(codecEncoded).
TlvDecode ==
    /\ codecFn = "tlv"
    /\ codecStage = "encoded"
    /\ codecDecoded' = tlvDecode(codecEncoded)
    /\ codecStage' = "decoded"
    /\ UNCHANGED << codecFn, codecInput, codecEncoded >>
    /\ UNCHANGED << sessionVars, companionVars, airVars, pairVars, streamVars, hbVars, keyVars, loopVars >>

\* Values of the supported space: the scalars around the limits of their
\* encodings, and arrays and maps of them, nested, below and at the count from
\* which a terminator is written.
OpackIntegers == { 0, 20, 39, 40, 255, 256, 65535, 65536, 2147483647, -1, -500 }

OpackLengths == { 0, 5, 32, 33, 255, 256, 65536 }

OpackScalars ==
    { NullV, BoolV(TRUE), BoolV(FALSE), FloatV(BufferFrom(1, 8)),
      BigIntV(<< 5, 0, 0, 0, 0, 0, 0, 0 >>), BigIntV(<< 0, 0, 0, 0, 0, 0, 0, 16 >>) }
        \cup { NumberV(n) : n \in OpackIntegers }
        \cup { StringV(BufferFrom(2, n)) : n \in OpackLengths }
        \cup { DataV(BufferFrom(3, n)) : n \in OpackLengths }

OpackContainers ==
    { ArrayV(<< >>), DictV(<< >>),
      ArrayV(<< NumberV(1), StringV(BufferFrom(2, 1)), NullV >>),
      ArrayV([i \in 1..15 |-> NumberV(i)]),
      ArrayV(<< ArrayV(<< NumberV(300) >>), DictV(<< << StringV(BufferFrom(2, 2)),
                                                      NumberV(-1) >> >>) >>),
      DictV(<< << StringV(BufferFrom(2, 2)), NumberV(7) >> >>),
      DictV(<< << StringV(BufferFrom(2, 2)), StringV(BufferFrom(4, 40)) >>,
               << StringV(BufferFrom(5, 2)),
                  DictV(<< << NumberV(1), ArrayV(<< BoolV(TRUE),
                                                   DataV(BufferFrom(3, 16)) >>) >> >>) >> >>),
      DictV([i \in 1..15 |-> << NumberV(i), BoolV(FALSE) >>]) }

OpackValues == OpackScalars \cup OpackContainers

InitOpackCall ==
    /\ codecFn = "opack"
    /\ codecStage = "input"
    /\ codecInput \in OpackValues
    /\ codecEncoded = << >>
    /\ codecDecoded = << >>

\* opackEncode(codecInput), byte by byte.
OpackEncodeCall ==
    /\ codecFn = "opack"
    /\ codecStage = "input"
    /\ codecEncoded' = encodeValue(codecInput)
    /\ codecStage' = "encoded"
    /\ UNCHANGED << codecFn, codecInput, codecDecoded >>
    /\ UNCHANGED << sessionVars, companionVars, airVars, pairVars, streamVars, hbVars, keyVars, loopVars >>

\* opackDecode(codecEncoded), byte by byte.
OpackDecodeCall ==
    /\ codecFn = "opack"
    /\ codecStage = "encoded"
    /\ codecDecoded' = decodeValue(codecEncoded, 0).value
    /\ codecStage' = "decoded"
    /\ UNCHANGED << codecFn, codecInput, codecEncoded >>
    /\ UNCHANGED << sessionVars, companionVars, airVars, pairVars, streamVars, hbVars, keyVars, loopVars >>

\* Buffers of Companion frames: up to two complete frames, followed by nothing
\* or by the beginning of one more, cut inside its header or its payload.
WholeFrames ==
    { encodeFrame(3, << >>), encodeFrame(PV_Start, BufferFrom(1, 5)),
      encodeFrame(E_OPACK, BufferFrom(2, 70000)) }

PartialFrames ==
    { TakeBytes(f, n) : f \in WholeFrames, n \in { 0, 1, 3, 4, 6, 300 } }
        \ WholeFrames

FrameBuffers ==
    { p : p \in PartialFrames }
        \cup { f \o p : f \in WholeFrames, p \in PartialFrames }
        \cup { f \o g \o p : f \in WholeFrames, g \in WholeFrames, p \in PartialFrames }

InitFramesCall ==
    /\ codecFn = "frames"
    /\ codecStage = "encoded"
    /\ codecInput = << >>
    /\ codecEncoded \in FrameBuffers
    /\ codecDecoded = << >>

\* parseFrames(codecEncoded).
ParseFrames ==
    /\ codecFn = "frames"
    /\ codecStage = "encoded"
    /\ codecDecoded' = parseFrames(codecEncoded)
    /\ codecStage' = "decoded"
    /\ UNCHANGED << codecFn, codecInput, codecEncoded >>
    /\ UNCHANGED << sessionVars, companionVars, airVars, pairVars, streamVars, hbVars, keyVars, loopVars >>

\* buildDataStreamFrame(codecInput).
DataStreamBuild ==
    /\ codecFn = "datastream"
    /\ codecStage = "input"
    /\ codecEncoded' = buildDataStreamFrame(codecInput)
    /\ codecStage' = "encoded"
    /\ UNCHANGED << codecFn, codecInput, codecDecoded >>
    /\ UNCHANGED << sessionVars, companionVars, airVars, pairVars, streamVars, hbVars, keyVars, loopVars >>

\* parseDataStreamFrame(codecEncoded).
DataStreamParse ==
    /\ codecFn = "datastream"
    /\ codecStage = "encoded"
    /\ codecDecoded' = parseDataStreamFrame(codecEncoded)
    /\ codecStage' = "decoded"
    /\ UNCHANGED << codecFn, codecInput, codecEncoded >>
    /\ UNCHANGED << sessionVars, companionVars, airVars, pairVars, streamVars, hbVars, keyVars, loopVars >>

(***************************************************************************)
(* Pairing.  auth/pair-setup.ts (PairSetup), companion/pair-setup.ts        *)
(* (CompanionPairSetup) and PairVerify: one run at a time, each a chain of  *)
(* awaited exchanges whose replies the peer chooses.  SRP is ideal: the     *)
(* server's proof verifies when it was computed from the PIN's verifier.    *)
(***************************************************************************)
NoVerify == [m2 |-> << >>, m3 |-> FALSE, m4 |-> << >>, keys |-> FALSE]

NoRun ==
    [flow |-> "none", step |-> "idle", m2 |-> << >>, m4 |-> << >>, m6 |-> << >>,
     result |-> << >>, error |-> [message |-> "none", value |-> << >>]]

InitPairing ==
    /\ pairing = NoRun
    /\ verifyLog = [air |-> NoVerify, companion |-> NoVerify]

\* Pair-setup replies of the peer.  M2: Salt, PublicKey, Error.
SetupM2(salt, publicKey, error) ==
    [Salt |-> salt, PublicKey |-> publicKey, Error |-> error]

SetupM2Replies ==
    { SetupM2(TRUE, TRUE, << >>), SetupM2(FALSE, FALSE, << 3 >>),
      SetupM2(TRUE, TRUE, << 3 >>), SetupM2(TRUE, FALSE, << >>) }

\* M4: the server's SRP proof, and Error.
SetupM4(proof, error) == [Proof |-> proof, Error |-> error]

SetupM4Replies ==
    { SetupM4("matching", << >>), SetupM4("absent", << 2 >>),
      SetupM4("matching", << 2 >>), SetupM4("other", << >>) }

\* M6: EncryptedData and the sub-TLV inside it, and Error.  The server signs
\* its accessory info under its long-term key.
SetupM6(encryptedData, identifier, publicKey, signature, error) ==
    [EncryptedData |-> encryptedData, Identifier |-> identifier,
     PublicKey |-> publicKey, Signature |-> signature, Error |-> error]

AccessoryInfo == << "accessorySignKey", "serverId", "serverLTK" >>

SetupM6Replies ==
    { SetupM6("sealed", << "serverId" >>, << "serverLTK" >>,
              << sign(AccessoryInfo, "serverLTK") >>, << >>),
      SetupM6("absent", << >>, << >>, << >>, << 2 >>),
      SetupM6("sealed", << "serverId" >>, << "serverLTK" >>,
              << sign(AccessoryInfo, "serverLTK") >>, << 2 >>),
      SetupM6("forged", << "serverId" >>, << "serverLTK" >>,
              << sign(AccessoryInfo, "serverLTK") >>, << >>),
      SetupM6("sealed", << >>, << "serverLTK" >>,
              << sign(AccessoryInfo, "serverLTK") >>, << >>),
      SetupM6("sealed", << "serverId" >>, << "serverLTK" >>, << >>, << >>),
      SetupM6("sealed", << "serverId" >>, << "serverLTK" >>,
              << sign(AccessoryInfo, "impostorLTK") >>, << >>) }

\* sendM1 from the decoded M2 on: the error thrown, "none" when it returns.
SendM1Check(m2) ==
    IF ~m2.Salt \/ ~m2.PublicKey THEN "M2 missing Salt or PublicKey" ELSE "none"

\* sendM3 from the decoded M4 on; srp.verifyServerProof throws on a proof that
\* does not match.
SendM3Check(m4) ==
    IF m4.Proof = "absent" THEN "M4 missing Proof"
    ELSE IF m4.Proof # "matching" THEN "server proof mismatch"
    ELSE "none"

\* sendM5 from the decoded M6 on; decryptChaCha20 throws on a tag that does not
\* verify.  The Signature of the sub-TLV is not read.
SendM5Check(m6) ==
    IF m6.EncryptedData = "absent" THEN "M6 missing EncryptedData"
    ELSE IF m6.EncryptedData # "sealed" THEN "decrypt failed"
    ELSE IF m6.Identifier = << >> \/ m6.PublicKey = << >>
    THEN "M6 decrypted data missing Identifier or PublicKey"
    ELSE "none"

\* The credentials sendM5 returns.
HAPCredentials(m6) ==
    [clientId |-> "clientId", serverLTPK |-> m6.PublicKey[1],
     serverId |-> m6.Identifier[1]]

\* PairVerify.verify from the decoded M2 to the point where M3 is sent.
VerifyM2Check(m2) ==
    IF m2.PublicKey = << >> \/ m2.EncryptedData = "absent"
    THEN "M2 missing PublicKey or EncryptedData"
    ELSE IF m2.EncryptedData # "sealed" THEN "decrypt failed"
    ELSE IF m2.Identifier = << >> \/ m2.Signature = << >>
    THEN "M2 decrypted data missing Identifier or Signature"
    ELSE IF ~cryptoVerify(m2.PublicKey \o m2.Identifier \o << ephemeralPublicKeyRaw >>,
                          credentials.serverLTPK, m2.Signature[1])
    THEN "Server signature verification failed"
    ELSE "none"

\* PairVerify.verify's check of M4.
VerifyM4Check(m4) ==
    IF m4.Error # << >> /\ m4.Error[1] # 0 THEN "Pair-verify M4 error" ELSE "none"

VerifyM4Replies == { [Error |-> error] : error \in M4Replies }

Flows == {"setup", "companionSetup", "verify"}

\* PairSetup.finish(pin), CompanionPairSetup.start() and PairVerify.verify()
\* each send their M1 and wait for M2.
PairingCall(flow) ==
    /\ pairing.flow = "none"
    /\ pairing' = [pairing EXCEPT !.flow = flow, !.step = "m2"]
    /\ UNCHANGED << sessionVars, companionVars, airVars, codecVars, verifyLog, streamVars, hbVars, keyVars, loopVars >>

\* The messages thrown that quote the Error of the reply, as
\* `error=${error ? error[0] : 'none'}` or as the M4 error's value.
QuotesError ==
    { "M2 missing Salt or PublicKey", "M4 missing Proof", "M6 missing EncryptedData",
      "M2 missing PublicKey or EncryptedData", "Pair-verify M4 error" }

\* A check throws: the run fails with its message and nothing is returned.
PairingThrow(run, message, error) ==
    [run EXCEPT !.step = "rejected",
                !.error = [message |-> message,
                           value |-> IF message \in QuotesError THEN error ELSE << >>]]

\* What follows a reply: the next step when no check throws.
PairingStep(run, check, error, next) ==
    IF check = "none" THEN [run EXCEPT !.step = next]
    ELSE PairingThrow(run, check, error)

\* sendM1 receives M2.  PairSetup goes on to sendM3; CompanionPairSetup.start
\* keeps salt and serverPublicKey and returns.
SetupReceiveM2(m2) ==
    /\ pairing.flow \in {"setup", "companionSetup"}
    /\ pairing.step = "m2"
    /\ pairing' = PairingStep([pairing EXCEPT !.m2 = << m2 >>], SendM1Check(m2),
                              m2.Error,
                              IF pairing.flow = "setup" THEN "m4" ELSE "started")
    /\ UNCHANGED << sessionVars, companionVars, airVars, codecVars, verifyLog, streamVars, hbVars, keyVars, loopVars >>

\* CompanionPairSetup.finish(pin) after start(): sendM3 sends M3.
CompanionFinishCall ==
    /\ pairing.flow = "companionSetup"
    /\ pairing.step = "started"
    /\ pairing' = [pairing EXCEPT !.step = "m4"]
    /\ UNCHANGED << sessionVars, companionVars, airVars, codecVars, verifyLog, streamVars, hbVars, keyVars, loopVars >>

\* sendM3 receives M4: the SRP session key is kept and sendM5 sends M5.
SetupReceiveM4(m4) ==
    /\ pairing.flow \in {"setup", "companionSetup"}
    /\ pairing.step = "m4"
    /\ pairing' = PairingStep([pairing EXCEPT !.m4 = << m4 >>], SendM3Check(m4),
                              m4.Error, "m6")
    /\ UNCHANGED << sessionVars, companionVars, airVars, codecVars, verifyLog, streamVars, hbVars, keyVars, loopVars >>

\* sendM5 receives M6: the credentials are returned, or a check throws.
SetupReceiveM6(m6) ==
    /\ pairing.flow \in {"setup", "companionSetup"}
    /\ pairing.step = "m6"
    /\ LET run == PairingStep([pairing EXCEPT !.m6 = << m6 >>], SendM5Check(m6),
                              m6.Error, "resolved")
       IN  pairing' = IF run.step = "resolved"
                      THEN [run EXCEPT !.result = << HAPCredentials(m6) >>]
                      ELSE run
    /\ UNCHANGED << sessionVars, companionVars, airVars, codecVars, verifyLog, streamVars, hbVars, keyVars, loopVars >>

\* PairVerify.verify receives M2: M3 is sent when no check throws.
VerifyReceiveM2(m2) ==
    /\ pairing.flow = "verify"
    /\ pairing.step = "m2"
    /\ pairing' = PairingStep([pairing EXCEPT !.m2 = << m2 >>], VerifyM2Check(m2),
                              m2.Error, "m4")
    /\ UNCHANGED << sessionVars, companionVars, airVars, codecVars, verifyLog, streamVars, hbVars, keyVars, loopVars >>

\* PairVerify.verify receives M4: the two keys are derived and returned.
VerifyReceiveM4(m4) ==
    /\ pairing.flow = "verify"
    /\ pairing.step = "m4"
    /\ LET run == PairingStep([pairing EXCEPT !.m4 = << m4 >>], VerifyM4Check(m4),
                              m4.Error, "resolved")
       IN  pairing' = IF run.step = "resolved"
                      THEN [run EXCEPT !.result = << [outputKey |-> "Control-Write",
                                                      inputKey |-> "Control-Read"] >>]
                      ELSE run
    /\ UNCHANGED << sessionVars, companionVars, airVars, codecVars, verifyLog, streamVars, hbVars, keyVars, loopVars >>

\* Pair-verify and pair-setup: the pair-verify of the two connect() and the
\* runs of the pairing classes.
NextPairing ==
    \/ AirConnectCall
    \/ AirSocketConnected
    \/ \E m2 \in M2Replies : AirReceiveM2(m2)
    \/ \E error \in M4Replies : AirReceiveM4(error)
    \/ CompanionConnectCall
    \/ CompanionSocketConnected
    \/ \E m2 \in M2Replies : CompanionReceiveM2(m2)
    \/ \E error \in M4Replies : CompanionReceiveM4(error)
    \/ CompanionInstallSession
    \/ \E flow \in Flows : PairingCall(flow)
    \/ \E m2 \in SetupM2Replies : SetupReceiveM2(m2)
    \/ CompanionFinishCall
    \/ \E m4 \in SetupM4Replies : SetupReceiveM4(m4)
    \/ \E m6 \in SetupM6Replies : SetupReceiveM6(m6)
    \/ \E m2 \in M2Replies : VerifyReceiveM2(m2)
    \/ \E m4 \in VerifyM4Replies : VerifyReceiveM4(m4)

(***************************************************************************)
(* Inbound bytes of the three AirPlay sockets (connection.ts,               *)
(* onEncryptedData, onEventChannelData, onDataChannelData).  A stream is    *)
(* the HAP frames the receiver writes, each the sealed form of a stretch of *)
(* plaintext; the plaintext is cut into the parts of application messages   *)
(* (an RTSP message, a DataStream frame).  On the wire a frame is two       *)
(* pieces, so that a 'data' event can end inside it.  A piece is            *)
(* [kind, id, part, of]: piece `part` of the `of` pieces of HAP frame `id`, *)
(* or of message `id`.                                                      *)
(***************************************************************************)
Cipher(frame, part) == [kind |-> "cipher", id |-> frame, part |-> part, of |-> 2]

Plain(msg, part, of) == [kind |-> "plain", id |-> msg, part |-> part, of |-> of]

\* The plaintexts of the frames of a stream, frame i sealed with counter i - 1:
\* one message over two frames; two messages, a frame each; two messages in
\* one frame; a message in a frame, then one over two frames; two other
\* messages in one frame; a message over two frames, the second frame ending
\* with another message.
Streams ==
    { << << Plain(1, 1, 2) >>, << Plain(1, 2, 2) >> >>,
      << << Plain(1, 1, 1) >>, << Plain(2, 1, 1) >> >>,
      << << Plain(1, 1, 1), Plain(2, 1, 1) >> >>,
      << << Plain(1, 1, 1) >>, << Plain(2, 1, 2) >>, << Plain(2, 2, 2) >> >>,
      << << Plain(3, 1, 1), Plain(4, 1, 1) >> >>,
      << << Plain(4, 1, 2) >>, << Plain(4, 2, 2), Plain(3, 1, 1) >> >> }

\* The bytes of a stream on the wire.
RECURSIVE WireFrom(_, _)
WireFrom(stream, frame) ==
    IF frame > Len(stream) THEN << >>
    ELSE << Cipher(frame, 1), Cipher(frame, 2) >> \o WireFrom(stream, frame + 1)

Wire(stream) == WireFrom(stream, 1)

\* The ways TCP hands a wire over: the lengths of the successive 'data'
\* events.
RECURSIVE Splits(_)
Splits(n) ==
    IF n = 0 THEN { << >> }
    ELSE UNION { { << k >> \o rest : rest \in Splits(n - k) } : k \in 1..n }

\* A socket's receive state: the session's inCounter, the accumulation
\* buffers, the messages delivered, and how often each frame was decrypted;
\* the session's outCounter and what was written on the socket.
NewReceiver(stream) ==
    [inCounter |-> 0, enc |-> << >>, dec |-> << >>, delivered |-> << >>,
     decrypts |-> [f \in 1..Len(stream) |-> 0], failures |-> 0,
     outCounter |-> 0, written |-> << >>]

\* A whole HAP frame stands at the head of the buffer: the two length bytes and
\* length + 16 bytes after them.  Plaintext read as a length (an RTSP message
\* starts with "RT", 21586 as a little-endian length) asks for more than the
\* streams here hold.
FrameAtHead(buf) ==
    /\ Len(buf) >= 2
    /\ buf[1].kind = "cipher" /\ buf[1].part = 1
    /\ buf[2] = Cipher(buf[1].id, 2)

\* hasCompleteHAPFrame(buf)
RECURSIVE hasCompleteHAPFrame(_)
hasCompleteHAPFrame(buf) ==
    IF buf = << >> THEN TRUE
    ELSE IF ~FrameAtHead(buf) THEN FALSE
    ELSE hasCompleteHAPFrame(SubSeq(buf, 3, Len(buf)))

\* HAPSession.decrypt(data) over whole frames: each frame is opened with the
\* nonce of inCounter, which is advanced first; the tag of a frame sealed with
\* another counter does not verify and decryptChaCha20 throws.
RECURSIVE SessionDecrypt(_, _, _, _)
SessionDecrypt(stream, rcv, data, parts) ==
    IF data = << >> THEN [rcv |-> rcv, ok |-> TRUE, plaintext |-> parts]
    ELSE LET frame == data[1].id
             opened == [rcv EXCEPT !.inCounter = @ + 1, !.decrypts[frame] = @ + 1]
         IN  IF frame - 1 # rcv.inCounter
             THEN [rcv |-> [opened EXCEPT !.failures = @ + 1], ok |-> FALSE,
                   plaintext |-> << >>]
             ELSE SessionDecrypt(stream, opened, SubSeq(data, 3, Len(data)),
                                 parts \o stream[frame])

\* A whole message stands at the head of the plaintext: parseHTTPMessage and
\* parseDataStreamFrame return it, and null otherwise.
MessageAtHead(buf) ==
    /\ buf # << >>
    /\ buf[1].kind = "plain" /\ buf[1].part = 1
    /\ Len(buf) >= buf[1].of
    /\ \A i \in 1..buf[1].of : buf[i] = Plain(buf[1].id, i, buf[1].of)

\* onEncryptedData(data), tryParseRTSPResponse() with the control session in
\* place.
onEncryptedData(stream, rcv, data) ==
    LET encryptedBuffer == rcv.enc \o data
    IN  IF ~hasCompleteHAPFrame(encryptedBuffer)
        THEN [rcv EXCEPT !.enc = encryptedBuffer]
        ELSE LET r == SessionDecrypt(stream, rcv, encryptedBuffer, << >>)
                 decrypted == r.plaintext
             IN  IF ~r.ok THEN [r.rcv EXCEPT !.enc = encryptedBuffer]
                 ELSE IF ~MessageAtHead(decrypted)
                 THEN [r.rcv EXCEPT !.enc = decrypted]
                 ELSE [r.rcv EXCEPT
                          !.enc = SubSeq(decrypted, decrypted[1].of + 1, Len(decrypted)),
                          !.delivered = Append(@, decrypted[1].id)]

\* The first loop of onEventChannelData and of onDataChannelData: whole frames
\* are cut off the encrypted buffer and decrypted one by one into the decrypted
\* buffer; a frame that does not decrypt ends the call.
RECURSIVE DecryptFrames(_, _)
DecryptFrames(stream, rcv) ==
    IF Len(rcv.enc) < 1 \/ ~FrameAtHead(rcv.enc) THEN [rcv |-> rcv, ok |-> TRUE]
    ELSE LET frame == SubSeq(rcv.enc, 1, 2)
             cut == [rcv EXCEPT !.enc = SubSeq(@, 3, Len(@))]
             r == SessionDecrypt(stream, cut, frame, << >>)
         IN  IF ~r.ok THEN [rcv |-> r.rcv, ok |-> FALSE]
             ELSE DecryptFrames(stream, [r.rcv EXCEPT !.dec = @ \o r.plaintext])

\* The second loop of onDataChannelData: every whole message at the head of the
\* decrypted buffer is taken off it and handled.
RECURSIVE ParseMessages(_)
ParseMessages(rcv) ==
    IF ~MessageAtHead(rcv.dec) THEN rcv
    ELSE ParseMessages([rcv EXCEPT !.dec = SubSeq(@, rcv.dec[1].of + 1, Len(@)),
                                   !.delivered = Append(@, rcv.dec[1].id)])

\* The headers of the requests the receiver sends on the event channel, by
\* message: CSeq and Server; none; a lower-case cseq of 0; Server alone.
Header(name, value) == [name |-> name, value |-> value]

EventRequestOf(id) ==
    CASE id = 1 -> << Header("CSeq", "7"), Header("Server", "AirTunes/366.0") >>
      [] id = 2 -> << >>
      [] id = 3 -> << Header("cseq", "0") >>
      [] OTHER -> << Header("Server", "AirTunes/366.0"), Header("Content-Length", "0") >>

\* name.trim().toLowerCase()
ToLowerCase(name) ==
    CASE name = "CSeq" -> "cseq"
      [] name = "Server" -> "server"
      [] name = "Content-Length" -> "content-length"
      [] OTHER -> name

\* The headers object of parseHTTPMessage: the value of the last line with
\* that name, lower-cased; << >> for undefined.
RECURSIVE HeaderOf(_, _)
HeaderOf(lines, name) ==
    IF lines = << >> THEN << >>
    ELSE LET last == lines[Len(lines)]
         IN  IF ToLowerCase(last.name) = name THEN << last.value >>
             ELSE HeaderOf(SubSeq(lines, 1, Len(lines) - 1), name)

\* A header value that a JavaScript condition takes for true.
Truthy(value) == value # << >> /\ value[1] # ""

\* The response processEventRequests builds for a parsed request.
EventResponse(lines) ==
    LET server == HeaderOf(lines, "server")
        cseqHeader == HeaderOf(lines, "cseq")
    IN  [statusLine |-> "RTSP/1.0 200 OK",
         headers |-> << Header("Content-Length", "0"), Header("Audio-Latency", "0") >>
                        \o (IF Truthy(server) THEN << Header("Server", server[1]) >>
                            ELSE << >>)
                        \o (IF Truthy(cseqHeader) THEN << Header("CSeq", cseqHeader[1]) >>
                            ELSE << >>)]

\* this.eventSession.encrypt(Buffer.from(response)): one frame, under the
\* session's outCounter.
EventEncrypt(rcv, response) ==
    encryptChaCha20("Events-Write", generateNonce(rcv.outCounter), response, "length")

\* A processEventRequests that answers one request per call.
processEventRequests_OnePerCall(rcv) ==
    IF ~MessageAtHead(rcv.dec) THEN rcv
    ELSE LET parsed == rcv.dec[1]
             encrypted == EventEncrypt(rcv, EventResponse(EventRequestOf(parsed.id)))
         IN  [rcv EXCEPT !.dec = SubSeq(@, parsed.of + 1, Len(@)),
                         !.delivered = Append(@, parsed.id),
                         !.outCounter = @ + 1,
                         !.written = Append(@, encrypted)]

\* processEventRequests(): every whole request at the head of the decrypted
\* buffer is taken off it and answered on the event socket.
RECURSIVE processEventRequests(_)
processEventRequests(rcv) ==
    IF ~MessageAtHead(rcv.dec) THEN rcv
    ELSE LET parsed == rcv.dec[1]
             encrypted == EventEncrypt(rcv, EventResponse(EventRequestOf(parsed.id)))
         IN  processEventRequests(
                 [rcv EXCEPT !.dec = SubSeq(@, parsed.of + 1, Len(@)),
                             !.delivered = Append(@, parsed.id),
                             !.outCounter = @ + 1,
                             !.written = Append(@, encrypted)])

\* onEventChannelData(data)
onEventChannelData(stream, rcv, data) ==
    LET r == DecryptFrames(stream, [rcv EXCEPT !.enc = @ \o data])
    IN  IF r.ok THEN processEventRequests(r.rcv) ELSE r.rcv

\* onDataChannelData(data)
onDataChannelData(stream, rcv, data) ==
    LET r == DecryptFrames(stream, [rcv EXCEPT !.enc = @ \o data])
    IN  IF r.ok THEN ParseMessages(r.rcv) ELSE r.rcv

Channels == {"control", "event", "data"}

\* The 'data' handler of a channel's socket.
OnData(channel, stream, rcv, data) ==
    CASE channel = "control" -> onEncryptedData(stream, rcv, data)
      [] channel = "event" -> onEventChannelData(stream, rcv, data)
      [] channel = "data" -> onDataChannelData(stream, rcv, data)

NoStream ==
    [channel |-> "none", stream |-> << >>, split |-> << >>, arrived |-> 0,
     rcv |-> NewReceiver(<< >>)]

InitInbound == inbound = NoStream

\* A stream, and a way it is cut into 'data' events, per channel.
InitStream ==
    \E channel \in Channels, stream \in Streams :
        \E split \in Splits(2 * Len(stream)) :
            inbound = [channel |-> channel, stream |-> stream, split |-> split,
                       arrived |-> 0, rcv |-> NewReceiver(stream)]

\* The next 'data' event of the socket: its handler runs to its end.
SocketData ==
    /\ inbound.split # << >>
    /\ LET n == Head(inbound.split)
           data == SubSeq(Wire(inbound.stream), inbound.arrived + 1, inbound.arrived + n)
       IN  inbound' = [inbound EXCEPT
                          !.split = Tail(@),
                          !.arrived = @ + n,
                          !.rcv = OnData(inbound.channel, inbound.stream, @, data)]
    /\ UNCHANGED << sessionVars, companionVars, airVars, codecVars, pairVars, hbVars, keyVars, loopVars >>

(***************************************************************************)
(* The FEEDBACK heartbeat (startFeedbackHeartbeat, close), watched from     *)
(* connect() on: the interval's callback, with a write that may fail, and   *)
(* close() at any time.                                                     *)
(***************************************************************************)
MaxHeartbeats == 3

\* setInterval(..., 2000)
FeedbackIntervalMs == 2000

NoHeartbeat ==
    [closed |-> FALSE, stopped |-> FALSE, clock |-> 0, sent |-> << >>, failed |-> 0]

InitHeartbeat == heartbeat = NoHeartbeat

\* The callback of the interval when the socket hands an error to write: the
\* rejection is caught and logged.
FeedbackWriteError ==
    /\ feedbackInterval
    /\ socket # "undefined"
    /\ feedbacks' = feedbacks + 1
    /\ SendRTSPWriteError(session, "feedback", rtspListeners)
    /\ UNCHANGED << airConnect, airSockets, eventSession, dataSession, dataOut,
                    feedbackInterval,
                    airMrp, now, exchanges, airData >>

\* The interval fires, FeedbackIntervalMs after it was armed or fired last:
\* sendRTSP('POST', '/feedback'), without a body.
HeartbeatTick(err) ==
    /\ feedbacks < MaxHeartbeats
    /\ IF err THEN FeedbackWriteError ELSE FeedbackSend
    /\ heartbeat' =
           [heartbeat EXCEPT
               !.clock = @ + FeedbackIntervalMs,
               !.sent = Append(@, [at |-> heartbeat.clock + FeedbackIntervalMs,
                                   cseq |-> cseq + 1,
                                   body |-> << >>,
                                   encrypted |-> session # << >>,
                                   written |-> socket # "undefined",
                                   afterClose |-> heartbeat.closed,
                                   afterStop |-> heartbeat.stopped]),
               !.failed = @ + (IF err \/ socket = "undefined" THEN 1 ELSE 0)]
    /\ UNCHANGED << sessionVars, companionVars, codecVars, pairVars, streamVars, keyVars, loopVars >>

\* close(), seen by the observer.
HeartbeatClose ==
    /\ CloseSockets
    /\ heartbeat' = [heartbeat EXCEPT !.closed = TRUE,
                                      !.stopped = @ \/ feedbackInterval]
    /\ UNCHANGED << sessionVars, companionVars, codecVars, pairVars, streamVars, keyVars, loopVars >>

NextHeartbeat ==
    \/ AirConnectCall
    \/ AirSocketConnected
    \/ \E m2 \in M2Replies : AirReceiveM2(m2)
    \/ \E error \in M4Replies : AirReceiveM4(error)
    \/ \E resp \in AllRtspReplies : RtspResponse(resp)
    \/ AirEventSocketConnected
    \/ \E err \in BOOLEAN : HeartbeatTick(err)
    \/ HeartbeatClose

(***************************************************************************)
(* AppleTV.sendKey (appletv.ts) for the keys of HID_KEY_MAP: the down       *)
(* event, the pause, the up event and the flush, each write awaited.        *)
(***************************************************************************)
SendHIDEvent == 8
GenericMessage == 42

Keys == { "select", "home_hold" }

\* Not a key of HID_KEY_MAP nor of MEDIA_COMMAND_KEYS.
UnknownKey == "bogus"

\* HID_KEY_MAP[baseKey], baseKey being home for home_hold.
HID_KEY_MAP(key) ==
    CASE key = "select" -> << [usagePage |-> 1, usage |-> 137] >>
      [] key \in { "home", "home_hold" } -> << [usagePage |-> 12, usage |-> 64] >>
      [] OTHER -> << >>

\* A hold that is the same for every key.
HoldDuration_Short(key) == 50

\* holdDuration
HoldDuration(key) == IF key = "home_hold" THEN 1000 ELSE 50

\* How late a timer may fire, in ms.
Lateness == { 0, 7 }

writeUInt16BE(value) == << (value \div 256) % 256, value % 256 >>

\* MRPMessage.sendHIDEvent(usagePage, usage, down): the message and the six
\* bytes of the event between the fixed header and footer.
sendHIDEvent(usagePage, usage, down) ==
    [type |-> SendHIDEvent,
     data |-> writeUInt16BE(usagePage) \o writeUInt16BE(usage)
                  \o writeUInt16BE(IF down THEN 1 ELSE 0)]

\* MRPMessage.sendCommand(type): a message with no extension.
sendCommand(type) == [type |-> type, data |-> << >>]

NoKeyPress == [key |-> "none", step |-> "idle", clock |-> 0, due |-> 0, downWritten |-> 0,
               log |-> << >>]

InitKeyPress == keyPress = NoKeyPress

\* conn.sendMRPMessage(message) from sendKey, which goes to step next while the
\* write is awaited; without a data channel sendMRPMessage throws and sendKey
\* rejects.  kp is the key press as it stands.
KeySend(kp, message, next) ==
    IF dataSocket = "undefined" \/ dataSession = << >>
    THEN /\ keyPress' = [kp EXCEPT !.step = "rejected"]
         /\ UNCHANGED << dataSession, dataOut >>
    ELSE LET r == SendMRPMessages(dataSession, << message.type >>, dataOut)
         IN  /\ dataSession' = r.session
             /\ dataOut' = r.out
             /\ keyPress' = [kp EXCEPT
                                !.step = next,
                                !.log = Append(@, [message |-> message, at |-> kp.clock,
                                                   out |-> Len(r.out)])]

\* What a step of sendKey leaves alone.
KeyUnchanged ==
    /\ UNCHANGED << airConnect, airSockets, session, eventSession, airRtsp,
                    feedbackInterval, feedbacks, airMrp, now, exchanges, airData >>
    /\ UNCHANGED << sessionVars, companionVars, codecVars, pairVars, streamVars, hbVars, loopVars >>

\* sendKey(key) is called: requireConnection, the key looked up, the down event
\* built and handed to the data socket.
SendKeyCall(key) ==
    /\ keyPress.step = "idle"
    /\ airConnect # "idle"
    /\ IF HID_KEY_MAP(key) = << >>
       THEN /\ keyPress' = [keyPress EXCEPT !.key = key, !.step = "rejected"]
            /\ UNCHANGED << dataSession, dataOut >>
       ELSE LET hid == HID_KEY_MAP(key)[1]
            IN  KeySend([keyPress EXCEPT !.key = key],
                        sendHIDEvent(hid.usagePage, hid.usage, TRUE), "downWrite")
    /\ KeyUnchanged

\* The callback of a write of sendKey: an error rejects sendKey; after the down
\* event the delay starts, after the up event the flush is built and handed to
\* the data socket, after the flush sendKey resolves.
KeyWritten(err) ==
    /\ keyPress.step \in { "downWrite", "upWrite", "flushWrite" }
    /\ IF err
       THEN /\ keyPress' = [keyPress EXCEPT !.step = "rejected"]
            /\ UNCHANGED << dataSession, dataOut >>
       ELSE CASE keyPress.step = "downWrite" ->
                     /\ keyPress' = [keyPress EXCEPT
                                        !.step = "delay",
                                        !.downWritten = keyPress.clock,
                                        !.due = keyPress.clock + HoldDuration(keyPress.key)]
                     /\ UNCHANGED << dataSession, dataOut >>
              [] keyPress.step = "upWrite" ->
                     KeySend(keyPress, sendCommand(GenericMessage), "flushWrite")
              [] keyPress.step = "flushWrite" ->
                     /\ keyPress' = [keyPress EXCEPT !.step = "resolved"]
                     /\ UNCHANGED << dataSession, dataOut >>
    /\ KeyUnchanged

\* The timer of delay(holdDuration) fires, at its time or later: the up event
\* is built and handed to the data socket.
KeyDelayOver(late) ==
    /\ keyPress.step = "delay"
    /\ LET hid == HID_KEY_MAP(keyPress.key)[1]
       IN  KeySend([keyPress EXCEPT !.clock = keyPress.due + late],
                   sendHIDEvent(hid.usagePage, hid.usage, FALSE), "upWrite")
    /\ KeyUnchanged

\* The receiver's answer to the DeviceInfo message of the initialization.
DeviceInfoReply == PeerSync(ProtobufOf(DeviceInfo), << 0, 1, 65535, 65534 >>)

\* A connection, from connect() to the end of the MRP initialization, the
\* receiver answering DeviceInfo, and a key press at any time of it.
NextKey ==
    \/ AirConnectCall
    \/ AirSocketConnected
    \/ \E m2 \in M2Replies : AirReceiveM2(m2)
    \/ \E error \in M4Replies : AirReceiveM4(error)
    \/ \E resp \in AllRtspReplies : RtspResponse(resp)
    \/ AirEventSocketConnected
    \/ AirDataSocketConnected
    \/ AirDeviceInfoWritten
    \/ PeerDataFrame(DeviceInfoReply, "none")
    \/ AirInitRest
    \/ AirSettled
    \/ AirClose
    \/ \E key \in Keys \cup { UnknownKey } : SendKeyCall(key)
    \/ \E err \in BOOLEAN : KeyWritten(err)
    \/ \E late \in Lateness : KeyDelayOver(late)

(***************************************************************************)
(* The DataStream parse loop of AirPlayConnection.onDataChannelData, one    *)
(* iteration a step.  this.dataDecBuffer is kept byte by byte; what follows *)
(* a header is filler that is no plist, so parseBuffer throws and the       *)
(* frame carries no protobuf data.                                          *)
(***************************************************************************)
MaxChunks == 2
MaxParseSteps == 4

\* A 32-byte header with the given size field, type and sequence number.
HeaderBytes(totalSize, type, seqno) ==
    writeUInt32BE(totalSize) \o type \o Alloc(4) \o writeBigUInt64BE(seqno) \o Alloc(4)

Filler(n) == [i \in 1..n |-> 255]

\* What one 'data' event decrypts to: a header-only frame of either type, a
\* frame with a payload, headers that declare 0, 4 or 8 bytes, and the two
\* halves of a header.
DecryptedChunks ==
    { HeaderBytes(HEADER_SIZE, MESSAGE_TYPE, globalSeqno),
      HeaderBytes(HEADER_SIZE, REPLY_TYPE, globalSeqno),
      HeaderBytes(HEADER_SIZE + 8, MESSAGE_TYPE, globalSeqno) \o Filler(8),
      HeaderBytes(0, MESSAGE_TYPE, globalSeqno),
      HeaderBytes(0, REPLY_TYPE, globalSeqno),
      HeaderBytes(4, MESSAGE_TYPE, globalSeqno),
      HeaderBytes(8, MESSAGE_TYPE, globalSeqno),
      SubSeq(HeaderBytes(HEADER_SIZE, MESSAGE_TYPE, globalSeqno), 1, 16),
      SubSeq(HeaderBytes(HEADER_SIZE, MESSAGE_TYPE, globalSeqno), 17, 32) }

\* parseDataStreamFrame(buf, 0) on bytes: null below 32 bytes or below the
\* declared size, otherwise the type, the sequence number and the declared
\* size, whatever it is.
parseDataStreamHeader(bytes) ==
    LET null == [ok |-> FALSE, messageType |-> "sync", seqno |-> << 0, 0, 0, 0 >>,
                 totalSize |-> 0]
    IN  IF Len(bytes) < HEADER_SIZE THEN null
        ELSE LET totalSize == readUInt32BE(bytes, 0)
             IN  IF Len(bytes) < totalSize THEN null
                 ELSE [ok |-> TRUE,
                       messageType |-> IF SubSeq(bytes, 5, 8) = SubSeq(REPLY_TYPE, 1, 4)
                                       THEN "rply" ELSE "sync",
                       seqno |-> readBigUInt64BE(bytes, 20),
                       totalSize |-> totalSize]

InitParseLoop ==
    parseLoop = [pc |-> "idle", dec |-> << >>, chunks |-> 0, steps |-> 0, replies |-> 0]

\* onDataChannelData up to the parse loop: the HAP frames of the event are
\* decrypted and the plaintext is appended to this.dataDecBuffer.
DataDecrypted(chunk) ==
    /\ parseLoop.pc = "idle"
    /\ parseLoop.chunks < MaxChunks
    /\ parseLoop' = [pc |-> "loop", dec |-> parseLoop.dec \o chunk,
                     chunks |-> parseLoop.chunks + 1, steps |-> 0, replies |-> 0]
    /\ UNCHANGED << sessionVars, companionVars, airVars, codecVars, pairVars,
                    streamVars, hbVars, keyVars >>

\* The loop test fails, or parseDataStreamFrame returns null: the call returns.
ParseLoopDone ==
    Len(parseLoop.dec) < 32 \/ ~parseDataStreamHeader(parseLoop.dec).ok

\* One turn of while (this.dataDecBuffer.length >= 32): a sync frame is
\* answered, and the buffer continues at subarray(frame.totalSize).
ParseStep ==
    /\ parseLoop.pc = "loop"
    /\ LET frame == parseDataStreamHeader(parseLoop.dec)
       IN  IF ParseLoopDone
           THEN parseLoop' = [parseLoop EXCEPT !.pc = "idle"]
           ELSE /\ parseLoop.steps < MaxParseSteps
                /\ parseLoop' =
                       [parseLoop EXCEPT
                            !.dec = SubSeq(@, frame.totalSize + 1, Len(@)),
                            !.steps = @ + 1,
                            !.replies = @ + (IF frame.messageType = "sync" THEN 1 ELSE 0)]
    /\ UNCHANGED << sessionVars, companionVars, airVars, codecVars, pairVars,
                    streamVars, hbVars, keyVars >>

NextParse ==
    \/ \E chunk \in DecryptedChunks : DataDecrypted(chunk)
    \/ ParseStep

(***************************************************************************)
(* Specifications.                                                         *)
(***************************************************************************)
Init == InitSession /\ InitCompanion /\ InitAirPlay /\ InitCodec /\ InitPairing
            /\ InitInbound /\ InitHeartbeat /\ InitKeyPress /\ InitParseLoop

SpecSession == Init /\ [][NextSession]_vars

SpecCompanion == Init /\ [][NextCompanion]_vars

SpecAirPlay == Init /\ [][NextAirPlay]_vars

SpecPairing == Init /\ [][NextPairing]_vars

InitStreams ==
    /\ InitSession /\ InitCompanion /\ InitAirPlay /\ InitCodec /\ InitPairing
    /\ InitStream /\ InitHeartbeat /\ InitKeyPress /\ InitParseLoop

NextStream == SocketData

SpecStream == InitStreams /\ [][NextStream]_vars

SpecHeartbeat == Init /\ [][NextHeartbeat]_vars

SpecKey == Init /\ [][NextKey]_vars

SpecParse == Init /\ [][NextParse]_vars

\* The loop is synchronous code: once entered, it runs its next turn.
FairSpecParse == Init /\ [][NextParse]_vars /\ WF_vars(ParseStep)

InitCodecCall ==
    /\ InitSession /\ InitCompanion /\ InitAirPlay /\ InitPairing /\ InitInbound
    /\ InitHeartbeat /\ InitKeyPress /\ InitParseLoop
    /\ (InitDataStreamCall \/ InitTlvCall \/ InitOpackCall \/ InitFramesCall)

NextCodec ==
    \/ DataStreamBuild
    \/ DataStreamParse
    \/ TlvEncode
    \/ TlvDecode
    \/ OpackEncodeCall
    \/ OpackDecodeCall
    \/ ParseFrames

SpecCodec == InitCodecCall /\ [][NextCodec]_vars

\* What this side's event loop and sockets do by themselves happens in the end:
\* a connectSocket call resolves or rejects, a write completes or fails, time
\* passes, a due timer fires and a continuation of connect() runs.  Nothing
\* makes the receiver answer, or the caller call.
AirPlayFairness ==
    /\ WF_vars(AirSocketConnected \/ AirSocketError)
    /\ WF_vars(AirEventSocketConnected \/ AirEventSocketError)
    /\ WF_vars(AirDataSocketConnected \/ AirDataSocketError)
    /\ WF_vars(AirDeviceInfoWritten \/ AirDeviceInfoWriteError)
    /\ WF_vars(Tick)
    /\ WF_vars(\E id \in mrpTimers : MRPTimeout(id))
    /\ WF_vars(FeedbackTick)
    /\ WF_vars(AirInitRest)
    /\ WF_vars(AirSettled)

FairSpecAirPlay == Init /\ [][NextAirPlay]_vars /\ AirPlayFairness


(***************************************************************************)
(* Claims about the sessions.                                              *)
(***************************************************************************)
\* Number of AEAD decryptions the HAP receiver has run: one per frame of every
\* output it decrypted.
RECURSIVE FramesIn(_, _)
FramesIn(wire, n) == IF n = 0 THEN 0 ELSE Len(wire[n]) + FramesIn(wire, n - 1)

\* C4: both counters of a session start at 0; the k-th frame a session encrypts
\* carries counter k-1 as its nonce, so after N frames the outbound counter is N
\* and no two frames under the same key share a counter value.
C4_OutCounterCountsFrames ==
    /\ sender.outCounter = Len(senderFrames)
    /\ \A i \in 1..Len(senderFrames) :
           /\ senderFrames[i].tag.key = sender.outKey
           /\ senderFrames[i].tag.nonce = generateNonce(i - 1)
    /\ \A i, j \in 1..Len(senderFrames) :
           i # j => senderFrames[i].tag.nonce # senderFrames[j].tag.nonce
    /\ sender.inCounter = 0 /\ receiver.outCounter = 0
    /\ (sent = << >>) => sender.outCounter = 0
    /\ (received = << >> /\ lastDecrypt.calls = 0) => receiver.inCounter = 0
    /\ (sessionClass = "HAP") => receiver.inCounter = FramesIn(hapWire, Len(received))

C4_Witness ==
    \/ /\ sessionClass = "HAP"
       /\ Len(sent) = MaxEncrypts
       /\ Len(senderFrames) > Len(sent)
       /\ \E i \in 1..Len(sent) : sent[i] = << >>
    \/ /\ sessionClass = "Companion"
       /\ Len(senderFrames) = MaxEncrypts

\* C5: a receiver with the swapped keys that decrypts the sender's outputs in
\* the order they were encrypted gets back exactly the plaintexts.
C5_HAPRoundTrip ==
    \A i \in 1..Len(received) : received[i].ok /\ received[i].plaintext = sent[i]

C5_Witness ==
    /\ Len(received) = MaxEncrypts
    /\ \E i \in 1..Len(received) : BufLen(sent[i]) > FRAME_LENGTH
    /\ \E i \in 1..Len(received) : BufLen(sent[i]) = 0
    /\ BufLen(sent[Len(received)]) > 0

\* C6: CompanionSession.decrypt succeeds exactly when the frame was encrypted
\* with the counter the receiver's inbound counter now holds, under the
\* receiver's inbound key, and arrives with the header it was encrypted with;
\* a successful decrypt returns the plaintext.
C6_DecryptExactlyWhen ==
    lastDecrypt.calls > 0 =>
        /\ lastDecrypt.ok <=>
               /\ lastDecrypt.sentAs.counter = lastDecrypt.inCounter
               /\ lastDecrypt.sentAs.key = lastDecrypt.inKey
               /\ lastDecrypt.header = lastDecrypt.sentAs.frame.header
        /\ lastDecrypt.ok => lastDecrypt.plaintext = lastDecrypt.sentAs.plaintext

\* The second frame decrypts after the first did, and a replay of it then fails.
C6_Witness ==
    /\ lastDecrypt.calls = 3
    /\ ~lastDecrypt.ok
    /\ lastDecrypt.sentAs.key = lastDecrypt.inKey
    /\ lastDecrypt.header = lastDecrypt.sentAs.frame.header
    /\ lastDecrypt.sentAs.counter = 1
    /\ lastDecrypt.inCounter = 2

(***************************************************************************)
(* Claims about the Companion connection.                                  *)
(***************************************************************************)
\* C7: transfer ids are 0, 1, 2, ... in the order of the requests; a request is
\* in the registry, with its timer armed, exactly while its promise is
\* pending, and its promise is settled once: no resolve or reject ever runs
\* for a request that is already settled.
C7_IncreasingIdsSettledOnce ==
    /\ Len(requests) = transferId
    /\ pendingRequests \subseteq 0..(transferId - 1)
    /\ \A i \in 1..Len(requests) :
           /\ requests[i].tid = i - 1
           /\ requests[i].settles <= 1
           /\ (requests[i].status = "pending") <=> (requests[i].settles = 0)
           /\ (requests[i].status = "pending") <=> (requests[i].tid \in pendingRequests)
           /\ (requests[i].status = "pending") <=> (requests[i].tid \in requestTimers)
           /\ requests[i].status \in {"pending", "fulfilled", "timeout", "closed"}

C7_Witness ==
    /\ Len(requests) = 2
    /\ requests[1].status = "timeout"
    /\ requests[2].status = "fulfilled"
    /\ lastHandled.handled /\ lastHandled.value = OpackMap(NumberX(1))
    /\ peerSent = 2

\* C8: a decrypted map either fulfils the pending request registered under its
\* _x and emits nothing, or, when no registered request has that id, fulfils
\* nothing and is emitted as one 'event'.
C8_FulfilOrEvent ==
    (lastHandled.handled /\ lastHandled.value.kind = "map") =>
        IF /\ lastHandled.value.x.type = "number"
           /\ lastHandled.value.x.value \in lastHandled.pendingBefore
        THEN lastHandled.fulfilled = {lastHandled.value.x.value} /\ lastHandled.events = 0
        ELSE lastHandled.fulfilled = {} /\ lastHandled.events = 1

\* A response that arrives after its request timed out is emitted as an event.
C8_Witness ==
    /\ lastHandled.handled
    /\ lastHandled.value = OpackMap(NumberX(0))
    /\ Len(requests) >= 1 /\ requests[1].status = "timeout"
    /\ lastHandled.events = 1
    /\ emitted.event = 1

\* C10: every request that was pending at a close() is rejected by it (once),
\* close() leaves the registry and its timers empty, and from close() on
\* sendRequest and sendMessage throw 'Companion not connected'.
C10_CloseRejectsPending ==
    /\ \A tid \in closedPending :
           requests[tid + 1].status = "closed" /\ requests[tid + 1].settles = 1
    /\ lastCall.afterClose => (pendingRequests = {} /\ requestTimers = {} /\ ~Connected)
    /\ (lastCall.afterClose /\ lastCall.op \in {"sendRequest", "sendMessage"}) =>
           lastCall.outcome = "Companion not connected"

\* Two requests were pending at close(); a later sendRequest was refused, also
\* after the session of a pair-verify still in flight was installed.
C10_Witness ==
    /\ closedPending = {0, 1}
    /\ lastCall.afterClose
    /\ lastCall.op = "sendRequest"
    /\ lastCall.outcome = "Companion not connected"


\* C12: when a sendRequest wait times out, exactly that request's registry
\* entry is removed and its caller fails; the expiry writes nothing and leaves
\* the session with its two counters, the socket, the next transfer id and
\* every other request as they were; and on a connection that is still
\* connected a later sendRequest can be made.
C12_TimeoutTouchesOnlyItsRequest ==
    /\ [][\A i \in 1..Len(requests) :
              (requests[i].status = "pending" /\ requests'[i].status = "timeout") =>
                  /\ pendingRequests' = pendingRequests \ {requests[i].tid}
                  /\ requestTimers' = requestTimers \ {requests[i].tid}
                  /\ \A j \in 1..Len(requests) : j # i => requests'[j] = requests[j]
                  /\ Len(requests') = Len(requests)
                  /\ written' = written
                  /\ companionSession' = companionSession
                  /\ companionSocket' = companionSocket
                  /\ transferId' = transferId]_vars
    /\ []((/\ \E i \in 1..Len(requests) : requests[i].status = "timeout"
           /\ Connected
           /\ transferId < MaxRequests) => ENABLED SendRequest)

\* The first request timed out while the second was pending; the second was
\* then answered, over a session that sent two frames and received one.
C12_Witness ==
    /\ Len(requests) = 2
    /\ requests[1].status = "timeout" /\ requests[1].settles = 1
    /\ requests[2].status = "fulfilled"
    /\ companionSession # << >>
    /\ companionSession[1].outCounter = 2
    /\ companionSession[1].inCounter = 1
    /\ pendingRequests = {}


(***************************************************************************)
(* Claims about the AirPlay connection.                                    *)
(***************************************************************************)
\* C1: connect() resolves only if every intermediate exchange succeeded:
\* pair-verify M2 and M4, SETUP event with the event port obtained and the
\* event socket opened, RECORD, SETUP data with the data socket opened, and the
\* DeviceInfo exchange; a failed or error response at any of them prevents
\* connect() from resolving.
C1_ResolvesOnlyAfterEverySuccess ==
    airConnect = "resolved" => \A step \in Steps : exchanges[step] = "ok"

\* C2: once connect() has rejected no partial state remains: the control, event
\* and data sockets are released and the heartbeat timer is not running.
C2_RejectedLeavesNothing ==
    airConnect = "rejected" =>
        /\ socket = "undefined"
        /\ eventSocket = "undefined"
        /\ dataSocket = "undefined"
        /\ ~feedbackInterval

\* C3: a frame that fails to authenticate is fatal for its channel: after one,
\* no later inbound frame is delivered as a message, and the sockets and timers
\* of the connection are torn down.
C3_DecryptFailureIsFatal ==
    dataDecryptFailures > 0 =>
        /\ mrpDelivered.afterFailure = 0
        /\ socket = "undefined"
        /\ eventSocket = "undefined"
        /\ dataSocket = "undefined"
        /\ ~feedbackInterval
        /\ mrpTimers = {}

\* C9: when an MRP message arrives, the earliest-registered waiter whose filter
\* equals the message type, or which has no filter, is removed from the
\* registry and fulfilled with the message; no other waiter is fulfilled by it,
\* and a message matching no waiter leaves the registry unchanged.
C9_EarliestMatchingWaiterFulfilled ==
    lastMRP.handled =>
        LET before == lastMRP.before
            matching == { i \in 1..Len(before) :
                              before[i].type \in {NoFilter, lastMRP.type} }
            first == CHOOSE i \in matching : \A j \in matching : i <= j
            others == { w \in 1..Len(lastMRP.waitsBefore) :
                            matching = {} \/ w # before[first].id }
        IN  /\ \A w \in others :
                   lastMRP.waitsAfter[w].status = lastMRP.waitsBefore[w].status
            /\ IF matching = {}
               THEN lastMRP.after = before
               ELSE /\ lastMRP.after = SubSeq(before, 1, first - 1)
                                        \o SubSeq(before, first + 1, Len(before))
                    /\ lastMRP.waitsAfter[before[first].id].status = "resolved"

\* C11: close() cancels every pending MRP response wait and empties the
\* pending-response registry: right after close() the registry is empty and no
\* wait is still pending.
C11_CloseCancelsWaits ==
    [][AirClose => /\ pendingMRPResolvers' = << >>
                   /\ \A i \in 1..Len(waits') : waits'[i].status # "pending"]_vars

\* C13: when a waitForMRPMessage wait times out, the entry removed from the
\* registry is that wait's own entry; its caller fails, and every other entry
\* stays registered, in order.
C13_TimeoutRemovesOwnEntry ==
    [][\A id \in 1..Len(waits) :
           (waits[id].status = "pending" /\ waits'[id].status = "rejected") =>
               /\ pendingMRPResolvers' =
                      SelectSeq(pendingMRPResolvers, LAMBDA r : r.id # id)
               /\ \A other \in 1..Len(waits) :
                      other # id => waits'[other] = waits[other]]_vars

\* C14: every request-response wait carries a timeout, so a connect() that is
\* under way and has not been abandoned by close() eventually resolves or
\* rejects, whatever the receiver does or fails to do.
C14_ConnectEventuallySettles ==
    (airConnect \notin {"idle", "tcp"} /\ socket = "connected")
        ~> (airConnect \in {"resolved", "rejected"} \/ socket = "undefined")

C17_EveryMessageObservedOnce ==
    /\ observers.mrpMessage = arrived
    /\ observers.message = arrived

\* Two messages have arrived, of which a waiter took one.
C17_Witness ==
    /\ Len(arrived) = 2
    /\ arrived[1] # arrived[2]
    /\ observers.message = arrived
    /\ lastMRP.handled
    /\ Len(lastMRP.after) < Len(lastMRP.before)

\* C18: no message written by sendMRPMessage is a CryptoPairing message, and
\* what is written for a message is the output of the data session's encrypt
\* over the DataStream frame of the message as it was built: one encryption,
\* under the data channel's key, of the plain message.  An inbound message is
\* decoded from the payload of its frame as the frame holds it.
C18_OnlyTransportEncryption ==
    /\ \A i \in 1..Len(dataOut) :
           LET m == dataOut[i]
               frame == buildDataStreamFrame(ProtobufOf(m.type))
           IN  /\ m.type # CryptoPairing
               /\ Len(m.written) = 1
               /\ m.written[1].ciphertext.key = dataSession[1].outKey
               /\ m.written[1].ciphertext.plaintext = FrameBytes(frame)
               /\ \E j \in 1..Len(m.written[1].ciphertext.plaintext) :
                      m.written[1].ciphertext.plaintext[j].id = m.type
    /\ (lastData.decrypted /\ lastData.payload # << >>
            /\ MRPDecode(lastData.payload[1]).ok) =>
           /\ arrived # << >>
           /\ arrived[Len(arrived)] = lastData.payload[1][1].id

\* initMRPProtocol has written its four messages, and a message of the
\* receiver has been taken in.
C18_Witness ==
    /\ Len(dataOut) = 4
    /\ dataOut[4].type = GetKeyboardSession
    /\ airConnect = "resolved"
    /\ lastData.decrypted
    /\ lastData.payload # << >>
    /\ arrived # << >>

(***************************************************************************)
(* Claims about the codecs.                                                *)
(***************************************************************************)
\* C16: parsing the frame built for a payload gives the type sync, a total
\* size equal to the length of the built frame, and the payload itself, the
\* empty payload and payloads with a varint prefix of several bytes included.
C16_BuiltFrameParsesBack ==
    (codecFn = "datastream" /\ codecStage = "decoded") =>
        /\ codecDecoded.ok
        /\ codecDecoded.messageType = "sync"
        /\ codecDecoded.totalSize = FrameLength(codecEncoded)
        /\ codecDecoded.protobufData = << codecInput >>

C16_Witness ==
    /\ codecFn = "datastream"
    /\ codecStage = "decoded"
    /\ BufLen(codecInput) = 16384
    /\ Len(codecEncoded.plist[1].value.params.data[1].bytes) = 3
    /\ codecDecoded.protobufData = << codecInput >>

\* C19: decoding the encoding of a map from tags to byte strings gives the map
\* back, for values that are empty, longer than 255 bytes, an exact multiple
\* of 255 bytes long, and up to 4 KB.
C19_TlvRoundTrip ==
    (codecFn = "tlv" /\ codecStage = "decoded") => codecDecoded = codecInput

\* A value of twice 255 bytes, in two items, next to an empty value.
C19_Witness ==
    /\ codecFn = "tlv"
    /\ codecStage = "decoded"
    /\ DOMAIN codecInput = { 1, 6 }
    /\ BufLen(codecInput[1]) = 510
    /\ BufLen(codecInput[6]) = 0
    /\ Len(codecEncoded) = 3
    /\ codecDecoded = codecInput

\* C20: decoding the encoding of a value of the supported space gives the
\* value back: null, true, false, integers, the negative ones included, floats,
\* strings, byte sequences, arrays and ordered maps, nested.
C20_OpackRoundTrip ==
    (codecFn = "opack" /\ codecStage = "decoded") => codecDecoded = codecInput

\* The encodings of the frames parseFrames returned, one after the other.
RECURSIVE EncodeAll(_)
EncodeAll(frames) ==
    IF frames = << >> THEN << >>
    ELSE encodeFrame(Head(frames).type, Head(frames).payload) \o EncodeAll(Tail(frames))

\* C21: the frames parseFrames returns, encoded again and followed by the
\* remainder, are the buffer; and no complete frame is left in the remainder,
\* which is shorter than a header or holds a header whose payload is cut.
C21_ParseFramesSplitsBuffer ==
    (codecFn = "frames" /\ codecStage = "decoded") =>
        LET remainder == codecDecoded.remainder
        IN  /\ EncodeAll(codecDecoded.frames) \o remainder = codecEncoded
            /\ \/ ByteLength(remainder) < FrameHeaderSize
               \/ FrameHeaderSize + ByteAt(remainder, 1) * 65536
                      + ByteAt(remainder, 2) * 256 + ByteAt(remainder, 3)
                      > ByteLength(remainder)

\* Two frames, one with an empty payload, before a frame cut inside its payload.
C21_Witness ==
    /\ codecFn = "frames"
    /\ codecStage = "decoded"
    /\ Len(codecDecoded.frames) = 2
    /\ codecDecoded.frames[1].payload = << >>
    /\ BufLen(codecDecoded.frames[2].payload) = 70000
    /\ ByteLength(codecDecoded.remainder) = 300

(***************************************************************************)
(* C22.  The steps of connect() in the order of the source, by the name of  *)
(* the exchange each one waits for; the TCP socket and the pair-verify M1   *)
(* precede "m2".                                                            *)
(***************************************************************************)
ConnectOrder ==
    << "m2", "m4", "setupEvent", "eventSocket", "record", "setupData",
       "dataSocket", "deviceInfo" >>

\* connect() is inside step i, or has been through it.
ConnectStarted(i) ==
    \/ exchanges[ConnectOrder[i]] # "none"
    \/ airConnect = ConnectOrder[i]
    \/ ConnectOrder[i] = "deviceInfo"
           /\ airConnect \in {"deviceInfoWrite", "deviceInfoWait"}

\* Step i is over: a socket is open, an exchange has had its reply.
ConnectCompleted(i) ==
    IF ConnectOrder[i] \in {"eventSocket", "dataSocket"}
    THEN exchanges[ConnectOrder[i]] = "ok"
    ELSE exchanges[ConnectOrder[i]] # "none"

\* C22: in every run of connect() each step starts only after the step before
\* it completed (control socket, pair-verify, control HAP session, SETUP of the
\* event channel and its socket, RECORD, heartbeat, SETUP of the data channel
\* and its socket, MRP initialisation); every RTSP request is one frame of the
\* control HAP session, and no heartbeat is armed or sent before RECORD was
\* answered.
C22_ConnectStepsInOrder ==
    /\ \A i \in 2..Len(ConnectOrder) : ConnectStarted(i) => ConnectCompleted(i - 1)
    /\ airConnect \in {"idle", "tcp"} => ~ConnectStarted(1) /\ cseq = 0
    /\ cseq > 0 => session # << >> /\ session[1].outCounter = cseq
    /\ (feedbackInterval \/ feedbacks > 0) => exchanges["record"] # "none"

\* The same statement without the step that fails, for the runs where the
\* event socket is opened.
C22_OrderApartFromEventSocket ==
    /\ \A i \in 2..Len(ConnectOrder) :
           (ConnectStarted(i) /\ ConnectOrder[i - 1] # "eventSocket")
               => ConnectCompleted(i - 1)
    /\ airConnect \in {"idle", "tcp"} => ~ConnectStarted(1) /\ cseq = 0
    /\ cseq > 0 => session # << >> /\ session[1].outCounter = cseq
    /\ (feedbackInterval \/ feedbacks > 0) => exchanges["record"] # "none"

(***************************************************************************)
(* C23.  The messages initMRPProtocol writes, in the order of the source.   *)
(***************************************************************************)
InitMessages ==
    << DeviceInfo, SetConnectionState, ClientUpdatesConfig, GetKeyboardSession >>

C23_WitnessNoReply ==
    /\ exchanges["deviceInfo"] = "failed"
    /\ Len(dataOut) = 1
    /\ airConnect = "rejected"

(***************************************************************************)
(* C24.  Pair-verify of AirPlayConnection.connect, CompanionConnection      *)
(* .connect and PairVerify.verify.                                          *)
(***************************************************************************)
\* The server's signature is there and verifies, under the stored long-term
\* key, over server-ephemeral || server-identifier || client-ephemeral.
ServerSignatureVerifies(m2) ==
    /\ m2.Signature # << >>
    /\ m2.Signature[1].signer = credentials.serverLTPK
    /\ m2.Signature[1].data = m2.PublicKey \o m2.Identifier \o << ephemeralPublicKeyRaw >>

\* What a pair-verify that derived its keys must have received.
VerifiedBy(m2, m4Error) ==
    /\ m2 # << >>
    /\ m2[1].EncryptedData = "sealed"
    /\ ServerSignatureVerifies(m2[1])
    /\ m4Error # << >>
    /\ m4Error[1] = 0

AirKeysDerived == verifyLog.air.keys \/ session # << >>

CompanionKeysDerived ==
    \/ verifyLog.companion.keys
    \/ companionSession # << >>
    \/ companionConnect = "deriving"

\* C24: in pair-verify the directional keys are derived and a session is
\* installed only if M2 decrypted under the verify key, the server's signature
\* over (server-ephemeral || server-identifier || client-ephemeral) verified
\* against the stored long-term key and M4 carried no non-zero Error; when the
\* signature does not verify, M3 is never sent and no keys are derived.
C24_KeysOnlyAfterVerify ==
    /\ AirKeysDerived => VerifiedBy(verifyLog.air.m2, verifyLog.air.m4)
    /\ CompanionKeysDerived =>
           VerifiedBy(verifyLog.companion.m2, verifyLog.companion.m4)
    /\ (pairing.flow = "verify" /\ pairing.result # << >>) =>
           /\ pairing.m4 # << >>
           /\ VerifiedBy(pairing.m2, << ErrorValue(pairing.m4[1].Error) >>)
    /\ (verifyLog.air.m2 # << >> /\ ~ServerSignatureVerifies(verifyLog.air.m2[1])) =>
           /\ ~verifyLog.air.m3 /\ airConnect = "rejected" /\ cseq = 0
           /\ ~AirKeysDerived
    /\ (verifyLog.companion.m2 # << >>
            /\ ~ServerSignatureVerifies(verifyLog.companion.m2[1])) =>
           /\ ~verifyLog.companion.m3 /\ companionConnect = "rejected" /\ written = 1
           /\ ~CompanionKeysDerived
    /\ (pairing.flow = "verify" /\ pairing.m2 # << >>
            /\ ~ServerSignatureVerifies(pairing.m2[1])) =>
           /\ pairing.step = "rejected" /\ pairing.m4 = << >>
           /\ pairing.result = << >>

\* The three pair-verify have derived their keys.
C24_Witness ==
    /\ session # << >>
    /\ companionSession # << >>
    /\ pairing.flow = "verify" /\ pairing.result # << >>

\* A signature made by another key has been refused by the three.
C24_WitnessRefused ==
    /\ verifyLog.air.m2 # << >>
    /\ verifyLog.air.m2[1].Signature = << sign(ServerOrder, "impostorLTK") >>
    /\ verifyLog.companion.m2 = verifyLog.air.m2
    /\ pairing.flow = "verify" /\ pairing.m2 = verifyLog.air.m2

(***************************************************************************)
(* C25, C26.  Pair-setup and the Error field.                               *)
(***************************************************************************)
\* The Signature of M6's sub-TLV is there and verifies, under the long-term
\* key the sub-TLV names, over the accessory's derived signing key, its
\* identifier and that key.
AccessorySignatureVerifies(m6) ==
    /\ m6.Signature # << >>
    /\ m6.PublicKey # << >>
    /\ m6.Signature[1].signer = m6.PublicKey[1]
    /\ m6.Signature[1].data = << "accessorySignKey" >> \o m6.Identifier \o m6.PublicKey

\* C25: pair-setup returns credentials only if the Signature inside M6's
\* decrypted sub-TLV verifies with the derived signing material; an M6 whose
\* signature is missing or does not verify makes finish() fail and yields no
\* credentials.
C25_CredentialsOnlyAfterSignature ==
    (pairing.flow \in {"setup", "companionSetup"} /\ pairing.m6 # << >>) =>
        /\ pairing.result # << >> => AccessorySignatureVerifies(pairing.m6[1])
        /\ ~AccessorySignatureVerifies(pairing.m6[1]) =>
               pairing.step = "rejected" /\ pairing.result = << >>

\* A reply of the run carrying an Error other than 0 has made the run fail
\* with that value reported.
FailsWith(reply) ==
    (reply # << >> /\ ErrorValue(reply[1].Error) # 0) =>
        /\ pairing.step = "rejected"
        /\ pairing.result = << >>
        /\ pairing.error.value = reply[1].Error

\* C26: in pair-setup and pair-verify every response TLV (M2, M4, M6) that
\* carries a non-zero Error makes the exchange fail, whatever other fields it
\* carries, and the failure reports that error value.
C26_NonZeroErrorIsFatal ==
    /\ FailsWith(pairing.m2) /\ FailsWith(pairing.m4) /\ FailsWith(pairing.m6)
    /\ (verifyLog.air.m2 # << >> /\ ErrorValue(verifyLog.air.m2[1].Error) # 0) =>
           airConnect = "rejected" /\ ~verifyLog.air.m3
    /\ (verifyLog.air.m4 # << >> /\ verifyLog.air.m4[1] # 0) =>
           airConnect = "rejected" /\ session = << >>
    /\ (verifyLog.companion.m2 # << >>
            /\ ErrorValue(verifyLog.companion.m2[1].Error) # 0) =>
           companionConnect = "rejected" /\ ~verifyLog.companion.m3
    /\ (verifyLog.companion.m4 # << >> /\ verifyLog.companion.m4[1] # 0) =>
           companionConnect = "rejected" /\ companionSession = << >>

\* The last reply a run of the pairing classes received.
LastReply ==
    IF pairing.m6 # << >> THEN pairing.m6
    ELSE IF pairing.m4 # << >> THEN pairing.m4 ELSE pairing.m2

\* The part of C26 that holds: a run that failed on a reply lacking a field the
\* step requires reports the Error of that reply, and an M4 of pair-verify
\* with an Error other than 0 fails the exchange.
C26_ErrorAloneIsFatal ==
    /\ (pairing.step = "rejected" /\ pairing.error.message \in QuotesError) =>
           pairing.error.value = LastReply[1].Error
    /\ (verifyLog.air.m4 # << >> /\ verifyLog.air.m4[1] # 0) =>
           airConnect = "rejected" /\ session = << >>
    /\ (verifyLog.companion.m4 # << >> /\ verifyLog.companion.m4[1] # 0) =>
           companionConnect = "rejected" /\ companionSession = << >>
    /\ (pairing.flow = "verify" /\ pairing.m4 # << >>
            /\ ErrorValue(pairing.m4[1].Error) # 0) =>
           /\ pairing.step = "rejected"
           /\ pairing.error.value = pairing.m4[1].Error

(***************************************************************************)
(* C27.  The pair-verify M1 on the wire.                                    *)
(***************************************************************************)
\* The place of the first item of a tag among the items written, 0 when the
\* tag is not written.
FirstItem(items, tag) ==
    IF \E i \in 1..Len(items) : items[i].tag = tag
    THEN CHOOSE i \in 1..Len(items) :
             items[i].tag = tag /\ \A j \in 1..(i - 1) : items[j].tag # tag
    ELSE 0

\* C27: the pair-verify M1 TLV places Sequence (tag 6, value 1) before
\* PublicKey (tag 3, the client's ephemeral key) on the wire.
C27_SequenceBeforePublicKey ==
    (codecFn = "tlv" /\ codecInput = PairVerifyM1 /\ codecStage # "input") =>
        /\ FirstItem(codecEncoded, TlvSeqNo) > 0
        /\ FirstItem(codecEncoded, TlvPublicKey) > 0
        /\ FirstItem(codecEncoded, TlvSeqNo) < FirstItem(codecEncoded, TlvPublicKey)

\* What the encoding of M1 does have: both items, each once and whole, the
\* PublicKey first.
C27_PublicKeyBeforeSequence ==
    (codecFn = "tlv" /\ codecInput = PairVerifyM1 /\ codecStage # "input") =>
        /\ Len(codecEncoded) = 2
        /\ codecEncoded[1] = [tag |-> TlvPublicKey, length |-> 32,
                              value |-> BufferFrom(2, 32)]
        /\ codecEncoded[2] = [tag |-> TlvSeqNo, length |-> 1,
                              value |-> BufferFrom(1, 1)]

(***************************************************************************)
(* C28.  Splitting of the inbound bytes into 'data' events.                 *)
(***************************************************************************)
\* What a channel delivers when its stream arrives in one 'data' event.
DeliveredAtOnce(channel, stream) ==
    OnData(channel, stream, NewReceiver(stream), Wire(stream)).delivered

\* The encrypted buffer holds ciphertext only, and no frame was decrypted
\* twice.
ConsumedOnFrameBoundaries(rcv) ==
    /\ \A i \in 1..Len(rcv.enc) : rcv.enc[i].kind = "cipher"
    /\ \A f \in DOMAIN rcv.decrypts : rcv.decrypts[f] <= 1

\* C28: on each AirPlay channel the messages delivered do not depend on how
\* the inbound encrypted bytes are split into 'data' events: partial frames and
\* messages wait in the socket's buffers, bytes are consumed on whole-frame
\* boundaries only, never decrypted twice and never read again as ciphertext.
C28_SplitIndependent ==
    inbound.channel \in Channels =>
        /\ ConsumedOnFrameBoundaries(inbound.rcv)
        /\ inbound.split = << >> =>
               inbound.rcv.delivered = DeliveredAtOnce(inbound.channel, inbound.stream)

\* The messages of a stream, in order.
RECURSIVE MessagesOf(_)
MessagesOf(plaintext) ==
    IF plaintext = << >> THEN << >>
    ELSE (IF Head(plaintext).part = 1 THEN << Head(plaintext).id >> ELSE << >>)
             \o MessagesOf(Tail(plaintext))

RECURSIVE Flatten(_)
Flatten(stream) == IF stream = << >> THEN << >> ELSE Head(stream) \o Flatten(Tail(stream))

\* The part of C28 that holds: on the event and data channels every split
\* delivers every message of the stream, in order, each frame decrypted once.
C28_EventAndDataChannels ==
    inbound.channel \in {"event", "data"} =>
        /\ ConsumedOnFrameBoundaries(inbound.rcv)
        /\ inbound.split = << >> =>
               /\ inbound.rcv.delivered = MessagesOf(Flatten(inbound.stream))
               /\ inbound.rcv.delivered = DeliveredAtOnce(inbound.channel, inbound.stream)
               /\ inbound.rcv.enc = << >> /\ inbound.rcv.dec = << >>

(***************************************************************************)
(* C29.  Inbound frames of type rply.                                       *)
(***************************************************************************)
\* The step is onDataChannelData taking in a frame of type rply that
\* decrypted.
ReplyFrameTakenIn ==
    /\ dataFrames' = dataFrames + 1
    /\ lastData'.decrypted
    /\ SubSeq(lastData'.header, 5, 8) = SubSeq(REPLY_TYPE, 1, 4)

\* C29: an inbound DataStream frame of type rply is silently absorbed: nothing
\* is written on the data channel for it and no MRP message is dispatched from
\* it to waiters or observers.
C29_ReplyAbsorbed ==
    [][ReplyFrameTakenIn =>
           /\ lastData'.written = << >> /\ lastData'.frames = 0
           /\ dataSession'[1].outCounter = dataSession[1].outCounter
           /\ UNCHANGED << arrived, observers, pendingMRPResolvers, waits, mrpDelivered >>
      ]_vars

\* The part of C29 that holds: nothing is written for a frame of type rply, and
\* a rply that is a bare header dispatches nothing.
C29_NoReplyToReply ==
    [][ReplyFrameTakenIn =>
           /\ lastData'.written = << >> /\ lastData'.frames = 0
           /\ dataSession'[1].outCounter = dataSession[1].outCounter
           /\ Len(lastData'.header) = FrameLength([header |-> lastData'.header,
                                                   plist |-> << >>])
                  /\ readUInt32BE(lastData'.header, 0) <= HEADER_SIZE
                  => UNCHANGED << arrived, observers, pendingMRPResolvers, waits,
                                  mrpDelivered >>
      ]_vars

(***************************************************************************)
(* C30.  The sequence number of the sync frames.                           *)
(***************************************************************************)
\* A 64-bit value in four 16-bit limbs lies in [2^32, 2^33 - 1] exactly when
\* its upper 32 bits are 1.
SeqnoInRange(seqno) ==
    /\ seqno[1] = 0
    /\ seqno[2] = 1
    /\ seqno[3] \in 0..65535
    /\ seqno[4] \in 0..65535

\* The eight bytes at offset 20 of a frame's header.
FrameSeqno(frame) == readBigUInt64BE(frame.header, 20)

\* C30: every sync frame that buildDataStreamFrame builds carries, at offset
\* 20 of its header, the one sequence number of the module, whatever the frame
\* carries; that number is 2^32 plus a draw below 2^32, so it lies in
\* [2^32, 2^33 - 1]; building a frame does not change it.
C30_OneSequenceNumber ==
    /\ \A draw \in RandomDraws : SeqnoInRange(SeqnoOf(draw))
    /\ globalSeqno \in { SeqnoOf(draw) : draw \in RandomDraws }
    /\ (codecFn = "datastream" /\ codecStage # "input") =>
          /\ FrameSeqno(codecEncoded) = globalSeqno
          /\ SeqnoInRange(FrameSeqno(codecEncoded))
          /\ \A protobufData \in Payloads :
                FrameSeqno(buildDataStreamFrame(protobufData)) = FrameSeqno(codecEncoded)

\* A frame built around 300 bytes, numbered as the frames of every other
\* payload are.
C30_Witness ==
    /\ codecFn = "datastream"
    /\ codecStage = "encoded"
    /\ BufLen(codecInput) = 300
    /\ SubSeq(codecEncoded.header, 21, 28) = writeBigUInt64BE(globalSeqno)
    /\ FrameSeqno(buildDataStreamFrame(<< >>)) = FrameSeqno(codecEncoded)

(***************************************************************************)
(* C31.  The frames of one HAPSession.encrypt.                             *)
(***************************************************************************)
\* ceil(n / FRAME_LENGTH)
FramesFor(n) == (n + FRAME_LENGTH - 1) \div FRAME_LENGTH

\* C31: encrypting N bytes gives exactly ceil(N/1024) frames; every frame's
\* length prefix is at most 1024, is the AAD of its tag and is the length of
\* its ciphertext; all frames but the last are full; the frames of one call,
\* and of consecutive calls, use consecutive nonce counters; an empty input
\* gives no frame and uses no nonce.
C31_FramesOfEncrypt ==
    (sessionClass = "HAP") =>
        /\ \A i \in 1..Len(sent) :
              LET frames == hapWire[i]
                  N == BufLen(sent[i])
              IN  /\ Len(frames) = FramesFor(N)
                  /\ (N = 0) => frames = << >>
                  /\ \A j \in 1..Len(frames) :
                        /\ frames[j].lengthBytes \in 1..FRAME_LENGTH
                        /\ frames[j].lengthBytes = Min(FRAME_LENGTH, N - (j - 1) * FRAME_LENGTH)
                        /\ frames[j].tag.aad = frames[j].lengthBytes
                        /\ BufLen(frames[j].ciphertext.plaintext) = frames[j].lengthBytes
                        /\ frames[j].tag.nonce = frames[j].ciphertext.nonce
                        /\ frames[j].tag.nonce.counter
                              = FramesIn(hapWire, i - 1) + j - 1
        /\ sender.outCounter = FramesIn(hapWire, Len(hapWire))

\* Three writes, one empty between one of three frames and one of a full frame
\* and one byte.
C31_Witness ==
    /\ sessionClass = "HAP"
    /\ Len(sent) = 3
    /\ BufLen(sent[1]) = 3000 /\ Len(hapWire[1]) = 3
    /\ BufLen(sent[2]) = 0 /\ Len(hapWire[2]) = 0
    /\ BufLen(sent[3]) = 1025 /\ Len(hapWire[3]) = 2
    /\ hapWire[3][1].tag.nonce.counter = 3
    /\ hapWire[3][2].lengthBytes = 1
    /\ sender.outCounter = 5

(***************************************************************************)
(* C32.  The fragments of tlvEncode.                                       *)
(***************************************************************************)
\* ceil(n / 255)
FragmentsFor(n) == (n + ChunkLimit - 1) \div ChunkLimit

\* The items of an encoding that carry one tag, in order.
ItemsOf(items, tag) == SelectSeq(items, LAMBDA item : item.tag = tag)

\* Number of bytes of the first k items: a tag byte, a length byte, the value.
RECURSIVE EncodedLength(_, _)
EncodedLength(items, k) ==
    IF k = 0 THEN 0 ELSE EncodedLength(items, k - 1) + 2 + BufLen(items[k].value)

\* C32: a value of n > 0 bytes is written as ceil(n/255) consecutive items
\* (tag, L = min(255, remaining), L value bytes), n + 2*ceil(n/255) bytes in
\* all, and an empty value as the one item (tag, 0); 300 bytes under PublicKey
\* are 304 bytes, with 03 FF at bytes 0..1 and 03 2D at bytes 257..258.
C32_TlvFragments ==
    (codecFn = "tlv" /\ codecStage # "input") =>
        /\ \A tag \in DOMAIN codecInput :
              LET n == BufLen(codecInput[tag])
                  items == ItemsOf(codecEncoded, tag)
              IN  /\ (n = 0) => items = << [tag |-> tag, length |-> 0, value |-> << >>] >>
                  /\ (n > 0) =>
                        /\ Len(items) = FragmentsFor(n)
                        /\ EncodedLength(items, Len(items)) = n + 2 * FragmentsFor(n)
                        /\ \A j \in 1..Len(items) :
                              /\ items[j].length = Min(ChunkLimit, n - (j - 1) * ChunkLimit)
                              /\ items[j].value
                                    = Subarray(codecInput[tag], (j - 1) * ChunkLimit,
                                               (j - 1) * ChunkLimit + items[j].length)
        \* the fragments of one value are consecutive
        /\ \A i, k \in 1..Len(codecEncoded) :
              (i < k /\ codecEncoded[i].tag = codecEncoded[k].tag) =>
                  \A j \in i..k : codecEncoded[j].tag = codecEncoded[i].tag
        /\ (codecInput = BigPublicKey) =>
              /\ EncodedLength(codecEncoded, Len(codecEncoded)) = 304
              /\ EncodedLength(codecEncoded, 0) = 0
              /\ codecEncoded[1].tag = 3 /\ codecEncoded[1].length = 255
              /\ EncodedLength(codecEncoded, 1) = 257
              /\ codecEncoded[2].tag = 3 /\ codecEncoded[2].length = 45

\* The 300-byte PublicKey of the unit test, encoded.
C32_Witness ==
    /\ codecFn = "tlv"
    /\ codecStage = "encoded"
    /\ codecInput = BigPublicKey
    /\ Len(codecEncoded) = 2
    /\ EncodedLength(codecEncoded, 2) = 304

\* A value of 4096 bytes next to an empty one.
C32_WitnessEmpty ==
    /\ codecFn = "tlv"
    /\ codecStage = "encoded"
    /\ DOMAIN codecInput = { 1, 6 }
    /\ BufLen(codecInput[1]) = 4096
    /\ BufLen(codecInput[6]) = 0
    /\ Len(codecEncoded) = 18

(***************************************************************************)
(* C33.  The integer encodings of opackEncode.                             *)
(***************************************************************************)
\* The smallest of the widths 1, 2, 4 and 8 bytes that holds an integer: from
\* 0 as an unsigned value, below 0 in two's complement.
SmallestWidth(value) ==
    IF value >= 0
    THEN (IF value <= 255 THEN 1 ELSE IF value <= 65535 THEN 2 ELSE 4)
    ELSE (IF value >= -128 THEN 1 ELSE IF value >= -32768 THEN 2 ELSE 4)

\* The little-endian bytes of an integer in its smallest width.
SmallestBytes(value) ==
    LET width == SmallestWidth(value)
    IN  IF value >= 0 THEN WriteUIntLE(value, width)
        ELSE IF width = 1 THEN << value + 256 >>
        ELSE IF width = 2 THEN WriteUIntLE(value + 65536, 2)
        ELSE SubSeq(WriteBigInt64LE(value), 1, 4)

TagOfWidth(width) ==
    IF width = 1 THEN TAG_INT8 ELSE IF width = 2 THEN TAG_INT16 ELSE TAG_INT32

\* The encoding the rule gives an integer.
IntegerBySize(value) ==
    IF value >= 0 /\ value <= TAG_SMALL_INT_MAX_VALUE
    THEN Lit(<< TAG_SMALL_INT_BASE + value >>)
    ELSE Lit(<< TagOfWidth(SmallestWidth(value)) >> \o SmallestBytes(value))

IntegerEncoded == codecFn = "opack" /\ codecStage # "input" /\ codecInput.t = "number"

\* C33: 0..39 is the one byte 0x08 + v; every other integer is the smallest of
\* the tags 0x30..0x33 that holds it, followed by the little-endian value:
\* encode(0) = 08, encode(20) = 1C, encode(-1) = 30 FF, encode(256) = 31 00 01.
C33_IntegerBySize ==
    IntegerEncoded =>
        /\ codecEncoded = IntegerBySize(codecInput.v)
        /\ (codecInput.v = 0) => codecEncoded = Lit(<< 8 >>)
        /\ (codecInput.v = 20) => codecEncoded = Lit(<< 28 >>)
        /\ (codecInput.v = -1) => codecEncoded = Lit(<< 48, 255 >>)
        /\ (codecInput.v = 256) => codecEncoded = Lit(<< 49, 0, 1 >>)

\* What does hold: the rule for the integers from 0, and a negative integer is
\* written under the int64 tag in eight bytes.
C33_FromZeroBySize ==
    IntegerEncoded =>
        /\ (codecInput.v >= 0) => codecEncoded = IntegerBySize(codecInput.v)
        /\ (codecInput.v = 0) => codecEncoded = Lit(<< 8 >>)
        /\ (codecInput.v = 20) => codecEncoded = Lit(<< 28 >>)
        /\ (codecInput.v = 256) => codecEncoded = Lit(<< 49, 0, 1 >>)
        /\ (codecInput.v = -1) =>
              codecEncoded = Lit(<< 51, 255, 255, 255, 255, 255, 255, 255, 255 >>)
        /\ (codecInput.v < 0) => Len(codecEncoded) = 9 /\ codecEncoded[1].byte = TAG_INT64

(***************************************************************************)
(* C34.  The heartbeat.                                                    *)
(***************************************************************************)
RecordAnswered == exchanges["record"] # "none"

HeartbeatShape(i) ==
    /\ heartbeat.sent[i].at = i * FeedbackIntervalMs
    /\ heartbeat.sent[i].body = << >>
    /\ heartbeat.sent[i].encrypted

\* C34: once RECORD was answered a POST /feedback without a body goes out
\* through the control session every 2 seconds until close(); a heartbeat that
\* fails leaves the sockets open and the interval armed; after close() no
\* heartbeat is sent.
C34_HeartbeatUntilClose ==
    /\ \A i \in 1..Len(heartbeat.sent) :
          /\ HeartbeatShape(i)
          /\ ~heartbeat.sent[i].afterClose
    /\ (RecordAnswered /\ ~heartbeat.closed) =>
          feedbackInterval /\ socket = "connected"
    /\ heartbeat.closed => ~feedbackInterval

\* What does hold: the same, for a close() called once the interval is armed.
C34_HeartbeatUntilStopped ==
    /\ \A i \in 1..Len(heartbeat.sent) :
          /\ HeartbeatShape(i)
          /\ ~heartbeat.sent[i].afterStop
          /\ heartbeat.sent[i].written
    /\ (RecordAnswered /\ ~heartbeat.closed) =>
          feedbackInterval /\ socket = "connected"
    /\ heartbeat.stopped => ~feedbackInterval
    /\ (Len(heartbeat.sent) > 0) => RecordAnswered

\* A heartbeat whose write failed, and one sent after it.
C34_SentAfterFailure ==
    /\ heartbeat.failed = 1
    /\ Len(heartbeat.sent) = 3
    /\ ~heartbeat.closed
    /\ rtspRequests # << >> /\ rtspRequests[Len(rtspRequests)] = "feedback"

(***************************************************************************)
(* C35.  The responses on the event channel.                               *)
(***************************************************************************)
\* The requests that have arrived whole: the messages of the stream whose last
\* piece lies in a frame that has arrived whole.
RECURSIVE CompleteRequests(_)
CompleteRequests(plaintext) ==
    IF plaintext = << >> THEN << >>
    ELSE (IF Head(plaintext).part = Head(plaintext).of THEN << Head(plaintext).id >>
          ELSE << >>) \o CompleteRequests(Tail(plaintext))

FramesArrived == inbound.arrived \div 2

\* What opening the i-th write with the event session's key and the counter
\* i - 1 gives.
Opened(i) ==
    decryptChaCha20("Events-Write", generateNonce(i - 1), inbound.rcv.written[i].ciphertext,
                    inbound.rcv.written[i].tag, "length")

\* The header of that name among the lines, << >> when there is none; names
\* compared as written.
ValuesOf(lines, name) ==
    SelectSeq(lines, LAMBDA line : line.name = name)

\* C35: for every request that has arrived whole on the event channel exactly
\* one 'RTSP/1.0 200 OK' is written, sealed with the event session, with the
\* request's CSeq and Server when it has them, the responses in the order of
\* the requests.
C35_OneResponsePerRequest ==
    (inbound.channel = "event") =>
        LET whole == CompleteRequests(Flatten(SubSeq(inbound.stream, 1, FramesArrived)))
            responses == inbound.rcv.written
        IN  /\ Len(responses) = Len(whole)
            /\ \A i \in 1..Len(responses) :
                  LET request == EventRequestOf(whole[i])
                      response == Opened(i).plaintext
                      cseqIn == HeaderOf(request, "cseq")
                      serverIn == HeaderOf(request, "server")
                  IN  /\ Opened(i).ok
                      /\ response.statusLine = "RTSP/1.0 200 OK"
                      /\ (cseqIn # << >>) =>
                            ValuesOf(response.headers, "CSeq") = << Header("CSeq", cseqIn[1]) >>
                      /\ (cseqIn = << >>) => ValuesOf(response.headers, "CSeq") = << >>
                      /\ (serverIn # << >>) =>
                            ValuesOf(response.headers, "Server")
                                = << Header("Server", serverIn[1]) >>
                      /\ (serverIn = << >>) => ValuesOf(response.headers, "Server") = << >>

\* Two requests that came in one 'data' event, one with CSeq alone and one with
\* Server alone, both answered.
C35_Witness ==
    /\ inbound.channel = "event"
    /\ inbound.stream = << << Plain(3, 1, 1), Plain(4, 1, 1) >> >>
    /\ inbound.split = << >>
    /\ Len(inbound.rcv.written) = 2
    /\ inbound.rcv.written[1].ciphertext.plaintext.headers[3] = Header("CSeq", "0")
    /\ inbound.rcv.written[2].ciphertext.plaintext.headers[3]
           = Header("Server", "AirTunes/366.0")
    /\ inbound.rcv.outCounter = 2

(***************************************************************************)
(* C36.  The messages of a key press.                                      *)
(***************************************************************************)
\* The messages of a whole press of a key.
PressOf(key) ==
    LET hid == HID_KEY_MAP(key)[1]
    IN  << [type |-> SendHIDEvent,
            data |-> << 0, hid.usagePage, 0, hid.usage, 0, 1 >>],
           [type |-> SendHIDEvent,
            data |-> << 0, hid.usagePage, 0, hid.usage, 0, 0 >>],
           [type |-> GenericMessage, data |-> << >>] >>

MinimumHold(key) == IF key = "home_hold" THEN 1000 ELSE 50

\* C36: the messages sendKey hands to the data channel for a HID key are the
\* down event, the up event for the same usage page and usage and an empty
\* GenericMessage, in this order, all three once sendKey has resolved; the up
\* event is handed over only after the write of the down event completed, and
\* at least 50 ms later, 1000 ms for home_hold.
C36_DownUpFlush ==
    (keyPress.key \in Keys) =>
        LET log == keyPress.log
            press == PressOf(keyPress.key)
        IN  /\ Len(log) <= 3
            /\ \A i \in 1..Len(log) :
                  /\ log[i].message = press[i]
                  /\ log[i].out \in 1..Len(dataOut)
                  /\ dataOut[log[i].out].type = press[i].type
                  /\ (i > 1) => log[i].out > log[i - 1].out
            /\ (keyPress.step = "resolved") => Len(log) = 3
            /\ (keyPress.step \in { "downWrite" }) => Len(log) = 1
            /\ (Len(log) >= 2) =>
                  /\ log[2].at >= keyPress.downWritten + MinimumHold(keyPress.key)
                  /\ keyPress.downWritten >= log[1].at

\* A whole long press of home, the timer some ms late.
C36_Witness ==
    /\ keyPress.key = "home_hold"
    /\ keyPress.step = "resolved"
    /\ Len(keyPress.log) = 3
    /\ keyPress.log[2].at = 1007
    /\ keyPress.log[3].message.type = GenericMessage

(***************************************************************************)
(* C37.  Which sendRTSP call a response resolves.                          *)
(***************************************************************************)
\* The caller of sendRTSP for a request.
CallerOf(request) == IF request = "feedback" THEN "feedback" ELSE "connect"

\* The step is tryParseRTSPResponse emitting 'rtsp-response'.
ResponseEmitted == \E resp \in AllRtspReplies : RtspResponse(resp)

\* The callers whose sendRTSP the step resolves: their listener is gone, or
\* connect() went on.
ResolvedCallers ==
    (rtspListeners \ rtspListeners')
        \cup (IF airConnect' # airConnect THEN { "connect" } ELSE { })

\* C37: the response to a request resolves the sendRTSP call that sent that
\* request and no other, also with several requests outstanding.
C37_OwnResponse ==
    [][ResponseEmitted => ResolvedCallers \subseteq { CallerOf(Head(rtspRequests)) }]_vars

\* What does hold: connect() is resolved by the responses to its own requests,
\* the receiver answering in order.
C37_ConnectOwnResponse ==
    [][(ResponseEmitted /\ "connect" \in ResolvedCallers)
           => CallerOf(Head(rtspRequests)) = "connect"]_vars

(***************************************************************************)
(* C38. Frames of the peer between M4 and the installation of the session. *)
(***************************************************************************)

\* The inbound counter of the installed session equals the number of frames
\* the peer has encrypted so far.
InCounterAtPosition ==
    companionSession # << >> => companionSession[1].inCounter = peerSent

\* C38: every frame the peer sends after M4 is handled by the encrypted path
\* with the inbound counter equal to the frame's position; no frame that
\* arrives while the keys are still being derived is parsed as a plaintext
\* frame and dropped.
C38_EncryptedAfterM4 ==
    /\ companionBuffer # Garbage
    /\ InCounterAtPosition

\* What does hold: as long as no frame arrived before the session was
\* installed, the inbound counter equals the position of the next frame.
C38_EncryptedAfterInstall ==
    companionBuffer = << >> => InCounterAtPosition

\* A frame arrived while the keys were being derived and was dropped.
C38_DroppedWhileDeriving ==
    /\ companionConnect = "deriving"
    /\ companionSession = << >>
    /\ peerSent = 1
    /\ companionBuffer = Garbage

(***************************************************************************)
(* C39. The receiver's DeviceInfo and the waiter of initMRPProtocol.       *)
(***************************************************************************)

\* A DeviceInfo message of the receiver has been handed to handleMRPResponse.
DeviceInfoArrived == \E i \in 1..Len(arrived) : arrived[i] = DeviceInfo

\* C39: during the MRP initialisation the receiver's DeviceInfo is always
\* delivered to the waiter of initMRPProtocol: whichever comes first, the
\* completion of the DeviceInfo write or the dispatch of inbound data, the
\* waiter is registered before the reply is matched, so the initialisation is
\* never left waiting for a DeviceInfo that has already arrived.
C39_ReplyNeverMissed ==
    airConnect \in {"deviceInfoWrite", "deviceInfoWait"} => ~DeviceInfoArrived

\* What does hold: a DeviceInfo that is matched while the waiter of
\* initMRPProtocol is the first matching entry resolves it.
C39_RegisteredWaiterResolved ==
    (lastMRP.handled /\ lastMRP.type = DeviceInfo) =>
        LET idx == FirstMatching(lastMRP.before, DeviceInfo)
        IN  (idx > 0 /\ lastMRP.waitsBefore[lastMRP.before[idx].id].init) =>
                lastMRP.waitsAfter[lastMRP.before[idx].id].status = "resolved"

\* The reply was matched before the write of DeviceInfo completed: no waiter
\* was registered, and the one registered afterwards is still pending.
C39_MissedReply ==
    /\ airConnect = "deviceInfoWait"
    /\ DeviceInfoArrived
    /\ Len(dataOut) = 1
    /\ Len(waits) = 1 /\ waits[1].init /\ waits[1].status = "pending"

(***************************************************************************)
(* C40. Termination of the parse loop of onDataChannelData.                *)
(***************************************************************************)

\* A turn of the loop that is followed by another test of the loop.
LoopTurn == parseLoop.pc = "loop" /\ parseLoop'.pc = "loop"

\* The header at the head of the buffer declares a total size of 0.
ZeroSizeAtHead ==
    /\ Len(parseLoop.dec) >= HEADER_SIZE
    /\ readUInt32BE(parseLoop.dec, 0) = 0

\* C40: onDataChannelData terminates on every inbound byte sequence: every
\* turn of the DataStream parse loop takes at least one byte off the decrypted
\* buffer, also for a frame whose declared total size is 0 or below the 32
\* bytes of the header, and the loop, once entered, is left.
C40_ParseLoopTerminates ==
    /\ [][LoopTurn => Len(parseLoop'.dec) < Len(parseLoop.dec)]_vars
    /\ (parseLoop.pc = "loop") ~> (parseLoop.pc = "idle")

\* What does hold: a turn takes the declared size off the buffer, which is at
\* least one byte unless the header at its head declares 0; and the loop is
\* left unless it has come to such a header.
C40_TerminatesUnlessZero ==
    /\ [][LoopTurn => (Len(parseLoop'.dec) < Len(parseLoop.dec) \/ ZeroSizeAtHead)]_vars
    /\ (parseLoop.pc = "loop") ~> (parseLoop.pc = "idle" \/ ZeroSizeAtHead)

\* The bound on the turns is only met in front of a header that declares 0.
C40_BoundOnlyAtZero ==
    (parseLoop.pc = "loop" /\ parseLoop.steps = MaxParseSteps) => ZeroSizeAtHead

\* A sync header that declares 0 has been answered more than once by one call.
C40_RepliesToOneFrame ==
    /\ parseLoop.pc = "loop"
    /\ parseLoop.chunks = 1
    /\ ZeroSizeAtHead
    /\ parseLoop.replies > 1

\* A header that declares 8 bytes was taken in one turn, and the call returned.
C40_ShortFrameConsumed ==
    /\ parseLoop.pc = "idle"
    /\ parseLoop.chunks = 1
    /\ parseLoop.steps = 1
    /\ Len(parseLoop.dec) = HEADER_SIZE - 8

=============================================================================
